---- MODULE Spec2Model ----
(***************************************************************************)
(* State and command core of Rubel Engine: the AppProvider store of        *)
(* src/AppContext.tsx, its AsyncStorage persistence (load effect, save     *)
(* effects, setEmailAddress) and the command interpreter of                *)
(* src/command.tsx (processCommand, runCommand), with the tap counter of    *)
(* the Settings title and the auto-tracking timer of the Sensors screen    *)
(* (src/sensors.tsx).                                                      *)
(*                                                                         *)
(* Strings are sequences of one-character strings, so that trimming,       *)
(* splitting, lower-casing and JSON quoting are computed as the code       *)
(* computes them.  The character U+2014 is written EmDash.                 *)
(***************************************************************************)
EXTENDS Integers, Sequences, FiniteSets, TLC

VARIABLES
  features,      \* useState<Feature[]>(DEFAULT_FEATURES)
  gpsLogs,       \* useState<GPSLog[]>([])
  photoLogs,     \* useState<PhotoLog[]>([])
  commandLogs,   \* useState<CommandLog[]>([])
  emailQueue,    \* useState<EmailQueue[]>([])
  emailAddress,  \* useState("")
  loaded,        \* useState(false)
  storage,       \* AsyncStorage: key -> stored text (or null)
  pending,       \* AsyncStorage.setItem calls made and not yet settled, oldest first
  now,           \* the clock read by Date.now() and new Date()
  lastOp,        \* name of the handler that ran last
  issued,        \* keys for which the last handler issued a setItem
  failures,      \* setItem promises that have rejected since startup
  lastResult,    \* CommandResult of the last runCommand
  calls,         \* store actions called by the last processCommand, in order
  budget,        \* handlers that may still run in this session
  assigned,      \* the ids given to features, in the order they were given
  line,          \* the line last handed to processCommand
  submitted,     \* the text of the command field when runCommand last ran
  threw,         \* the error the last store operation threw to its caller, or "none"
  updates,       \* the updaters handed to the state setters, oldest first
  flushed,       \* how many of them React has applied to the state
  tapCount,      \* SettingsScreen useRef(0)
  tapTimer,      \* SettingsScreen useRef(null): when the pending timeout is due, 0 for none
  showAdmin,     \* SettingsScreen useState(false)
  lastTap,       \* the time of the last tap on the Settings title, 0 before the first
  tracking,      \* SensorsScreen useState(false)
  trackingInterval, \* SensorsScreen useRef(null): the interval handle, 0 for null
  timers,        \* the handles of the intervals setInterval registered and nobody cleared
  mounted,       \* the Sensors screen is mounted
  granted        \* locationPermission?.granted

\* the refs and state of the Settings title
settingsVars == <<tapCount, tapTimer, showAdmin, lastTap>>

\* the refs and state of the Sensors screen
sensorsVars == <<tracking, trackingInterval, timers, mounted, granted>>

vars == <<features, gpsLogs, photoLogs, commandLogs, emailQueue, emailAddress,
          loaded, storage, pending, now, lastOp, issued, failures,
          lastResult, calls, budget, assigned, line, submitted, threw,
          updates, flushed, settingsVars, sensorsVars>>

----------------------------------------------------------------------------
(* Bounds of the model *)

\* Date.now() at process start, in ms; earlier sessions ran before it.
SessionStart == 1000
\* The clock advances at most this many ms during the session.
MaxTicks == 1
\* setItem calls in flight.
MaxPending == 6
\* setItem calls that fail during the session.
MaxFailures == 1
\* Features the user may have added on top of the stored ones.
MaxAdded == 2
\* Handlers run during a session started on StoredScenarios.
MaxEvents == 1
\* Handlers run during a session started on logs stored at their caps.
CapEvents == 1
\* Handlers run during a session of feature management.
FeatureEvents == 3
\* Calls of store actions and renders in a session where renders lag behind.
BatchEvents == 4
\* Taps on the Settings title.
SettingsEvents == 9
\* Presses, timer callbacks, unmounts and mounts of the Sensors screen.
SensorEvents == 5
\* The ms between two instants at which the Settings title is observed.
TapStep == 1000
\* The instants after the first at which the Settings title is observed.
MaxWait == 4

(* Program constants *)

GPS_CAP == 200
PHOTO_CAP == 100
COMMAND_CAP == 500
SECRET_TAPS == 7
SECRET_TIMEOUT == 3000

----------------------------------------------------------------------------
(* Characters and strings *)

EmDash == "U+2014"

Digits36 ==
  <<"0", "1", "2", "3", "4", "5", "6", "7", "8", "9", "a", "b", "c", "d", "e",
    "f", "g", "h", "i", "j", "k", "l", "m", "n", "o", "p", "q", "r", "s", "t",
    "u", "v", "w", "x", "y", "z">>

\* Number.prototype.toString(radix) for a non-negative integer
RECURSIVE ToStringRadix(_, _)
ToStringRadix(n, radix) ==
  IF n < radix THEN <<Digits36[n + 1]>>
  ELSE ToStringRadix(n \div radix, radix) \o <<Digits36[(n % radix) + 1]>>

\* String(n) for an integer
NumberToString(n) ==
  IF n < 0 THEN <<"-">> \o ToStringRadix(0 - n, 10) ELSE ToStringRadix(n, 10)

\* the value of a decimal digit string
RECURSIVE DigitsValue(_)
DigitsValue(s) ==
  IF s = <<>> THEN 0
  ELSE 10 * DigitsValue(SubSeq(s, 1, Len(s) - 1))
       + (CHOOSE d \in 0..9 : Digits36[d + 1] = s[Len(s)])

\* n padded with zeros to width w
PadStart(n, w) ==
  LET d == ToStringRadix(n, 10)
  IN  [i \in 1..(w - Len(d)) |-> "0"] \o d

\* Date.prototype.toISOString() of the date t ms after the epoch, t within the
\* first minute: 1970-01-01T00:00:ss.mmmZ
ToISOString(t) ==
  <<"1", "9", "7", "0", "-", "0", "1", "-", "0", "1", "T", "0", "0", ":", "0", "0", ":">>
  \o PadStart(t \div 1000, 2) \o <<".">> \o PadStart(t % 1000, 3) \o <<"Z">>

\* uid(): Math.random().toString(36).slice(2) + Date.now().toString(36);
\* r is the text Math.random() contributed, t the clock
uid(r, t) == r \o ToStringRadix(t, 36)

\* what Math.random().toString(36).slice(2) may return
RandomDraws == {<<"k", "3">>, <<"x">>}

----------------------------------------------------------------------------
(* Entities *)

Feature(id, name, description, enabled, category, addedAt) ==
  [id |-> id, name |-> name, description |-> description, enabled |-> enabled,
   category |-> category, addedAt |-> addedAt]

GPSLog(id, lat, lng, accuracy, timestamp) ==
  [id |-> id, lat |-> lat, lng |-> lng, accuracy |-> accuracy,
   timestamp |-> timestamp]

PhotoLog(id, uri, timestamp) == [id |-> id, uri |-> uri, timestamp |-> timestamp]

CommandLog(id, command, result, type, timestamp) ==
  [id |-> id, command |-> command, result |-> result, type |-> type,
   timestamp |-> timestamp]

EmailQueue(id, subject, body, createdAt, sent) ==
  [id |-> id, subject |-> subject, body |-> body, createdAt |-> createdAt,
   sent |-> sent]

----------------------------------------------------------------------------
(* String.prototype methods used by the handlers *)

\* the characters matched by \s that the inputs use
IsSpace(ch) == ch \in {" ", "\t", "\n"}

\* String.prototype.trim()
Trim(s) ==
  LET keep == {i \in 1..Len(s) : ~IsSpace(s[i])}
  IN  IF keep = {} THEN <<>>
      ELSE SubSeq(s, CHOOSE i \in keep : \A j \in keep : i <= j,
                     CHOOSE i \in keep : \A j \in keep : i >= j)

UpperCase == <<"A", "B", "C", "D", "E", "F", "G", "H", "I", "J", "K", "L", "M",
               "N", "O", "P", "Q", "R", "S", "T", "U", "V", "W", "X", "Y", "Z">>

\* the text taken as typed, the case of its letters kept
ToLowerCase_AsTyped(s) == s

\* String.prototype.toLowerCase()
ToLowerCase(s) ==
  [i \in 1..Len(s) |->
     IF \E k \in 1..26 : UpperCase[k] = s[i]
     THEN Digits36[10 + (CHOOSE k \in 1..26 : UpperCase[k] = s[i])]
     ELSE s[i]]

\* Array.prototype.join(sep)
RECURSIVE Join(_, _)
Join(parts, sep) ==
  IF parts = <<>> THEN <<>>
  ELSE IF Len(parts) = 1 THEN parts[1]
  ELSE parts[1] \o sep \o Join(Tail(parts), sep)

\* s.split(/\s+/): the pieces between maximal runs of white space
RECURSIVE SplitWhitespace(_)
SplitWhitespace(s) ==
  LET spaces == {i \in 1..Len(s) : IsSpace(s[i])}
  IN  IF spaces = {} THEN <<s>>
      ELSE LET first == CHOOSE i \in spaces : \A j \in spaces : i <= j
               after == {i \in (first + 1)..Len(s) : ~IsSpace(s[i])}
               next  == IF after = {} THEN Len(s) + 1
                        ELSE CHOOSE i \in after : \A j \in after : i <= j
           IN  <<SubSeq(s, 1, first - 1)>> \o SplitWhitespace(SubSeq(s, next, Len(s)))

\* s.split(sep) for a one-character separator
RECURSIVE Split(_, _)
Split(s, sep) ==
  LET hits == {i \in 1..Len(s) : s[i] = sep}
  IN  IF hits = {} THEN <<s>>
      ELSE LET first == CHOOSE i \in hits : \A j \in hits : i <= j
           IN  <<SubSeq(s, 1, first - 1)>> \o Split(SubSeq(s, first + 1, Len(s)), sep)

\* the ten seeded features; addedAt is new Date().toISOString() at module load
DefaultFeaturesAt(t) ==
  <<
     \* f001: "GPS Tracking", "Real-time location logging", true, "Sensors"
     Feature(<<"f", "0", "0", "1">>,
             <<"G", "P", "S", " ", "T", "r", "a", "c", "k", "i", "n", "g">>,
             <<"R", "e", "a", "l", "-", "t", "i", "m", "e", " ", "l", "o",
               "c", "a", "t", "i", "o", "n", " ", "l", "o", "g", "g", "i",
               "n", "g">>,
             TRUE,
             <<"S", "e", "n", "s", "o", "r", "s">>,
             ToISOString(t)),
     \* f002: "Camera Capture", "Offline photo capture", true, "Sensors"
     Feature(<<"f", "0", "0", "2">>,
             <<"C", "a", "m", "e", "r", "a", " ", "C", "a", "p", "t", "u",
               "r", "e">>,
             <<"O", "f", "f", "l", "i", "n", "e", " ", "p", "h", "o", "t",
               "o", " ", "c", "a", "p", "t", "u", "r", "e">>,
             TRUE,
             <<"S", "e", "n", "s", "o", "r", "s">>,
             ToISOString(t)),
     \* f003: "Email Sync", "Sync data when online", true, "Network"
     Feature(<<"f", "0", "0", "3">>,
             <<"E", "m", "a", "i", "l", " ", "S", "y", "n", "c">>,
             <<"S", "y", "n", "c", " ", "d", "a", "t", "a", " ", "w", "h",
               "e", "n", " ", "o", "n", "l", "i", "n", "e">>,
             TRUE,
             <<"N", "e", "t", "w", "o", "r", "k">>,
             ToISOString(t)),
     \* f004: "Dark Mode", "Always-on dark interface", true, "UI"
     Feature(<<"f", "0", "0", "4">>,
             <<"D", "a", "r", "k", " ", "M", "o", "d", "e">>,
             <<"A", "l", "w", "a", "y", "s", "-", "o", "n", " ", "d", "a",
               "r", "k", " ", "i", "n", "t", "e", "r", "f", "a", "c", "e">>,
             TRUE,
             <<"U", "I">>,
             ToISOString(t)),
     \* f005: "Haptic Feedback", "Tactile button responses", true, "UI"
     Feature(<<"f", "0", "0", "5">>,
             <<"H", "a", "p", "t", "i", "c", " ", "F", "e", "e", "d", "b",
               "a", "c", "k">>,
             <<"T", "a", "c", "t", "i", "l", "e", " ", "b", "u", "t", "t",
               "o", "n", " ", "r", "e", "s", "p", "o", "n", "s", "e", "s">>,
             TRUE,
             <<"U", "I">>,
             ToISOString(t)),
     \* f006: "Auto GPS Log", "Log GPS every 30 seconds", false, "Sensors"
     Feature(<<"f", "0", "0", "6">>,
             <<"A", "u", "t", "o", " ", "G", "P", "S", " ", "L", "o", "g">>,
             <<"L", "o", "g", " ", "G", "P", "S", " ", "e", "v", "e", "r",
               "y", " ", "3", "0", " ", "s", "e", "c", "o", "n", "d", "s">>,
             FALSE,
             <<"S", "e", "n", "s", "o", "r", "s">>,
             ToISOString(t)),
     \* f007: "Battery Monitor", "Track battery usage", false, "System"
     Feature(<<"f", "0", "0", "7">>,
             <<"B", "a", "t", "t", "e", "r", "y", " ", "M", "o", "n", "i",
               "t", "o", "r">>,
             <<"T", "r", "a", "c", "k", " ", "b", "a", "t", "t", "e", "r",
               "y", " ", "u", "s", "a", "g", "e">>,
             FALSE,
             <<"S", "y", "s", "t", "e", "m">>,
             ToISOString(t)),
     \* f008: "Network Watch", "Monitor connectivity state", true, "Network"
     Feature(<<"f", "0", "0", "8">>,
             <<"N", "e", "t", "w", "o", "r", "k", " ", "W", "a", "t", "c", "h">>,
             <<"M", "o", "n", "i", "t", "o", "r", " ", "c", "o", "n", "n",
               "e", "c", "t", "i", "v", "i", "t", "y", " ", "s", "t", "a",
               "t", "e">>,
             TRUE,
             <<"N", "e", "t", "w", "o", "r", "k">>,
             ToISOString(t)),
     \* f009: "Command History", "Save all command logs", true, "System"
     Feature(<<"f", "0", "0", "9">>,
             <<"C", "o", "m", "m", "a", "n", "d", " ", "H", "i", "s", "t",
               "o", "r", "y">>,
             <<"S", "a", "v", "e", " ", "a", "l", "l", " ", "c", "o", "m",
               "m", "a", "n", "d", " ", "l", "o", "g", "s">>,
             TRUE,
             <<"S", "y", "s", "t", "e", "m">>,
             ToISOString(t)),
     \* f010: "Photo Compression", "Compress photos on save", false, "Sensors"
     Feature(<<"f", "0", "1", "0">>,
             <<"P", "h", "o", "t", "o", " ", "C", "o", "m", "p", "r", "e",
               "s", "s", "i", "o", "n">>,
             <<"C", "o", "m", "p", "r", "e", "s", "s", " ", "p", "h", "o",
               "t", "o", "s", " ", "o", "n", " ", "s", "a", "v", "e">>,
             FALSE,
             <<"S", "e", "n", "s", "o", "r", "s">>,
             ToISOString(t))
  >>

DEFAULT_FEATURES == DefaultFeaturesAt(SessionStart)

----------------------------------------------------------------------------
(* The store: the value of the six pieces of state, and the store actions   *)
(* as the functional updaters they pass to the state setters.              *)

Keys == {"features", "gpsLogs", "photoLogs", "commandLogs", "emailQueue", "emailAddress"}

MkStore(f, g, p, c, e, em) ==
  [features |-> f, gpsLogs |-> g, photoLogs |-> p, commandLogs |-> c,
   emailQueue |-> e, emailAddress |-> em]

\* the current value of the context
Store == MkStore(features, gpsLogs, photoLogs, commandLogs, emailQueue, emailAddress)

\* the useState initial values
InitialStore == MkStore(DEFAULT_FEATURES, <<>>, <<>>, <<>>, <<>>, <<>>)

\* Array.prototype.slice(0, n)
Slice0(seq, n) == SubSeq(seq, 1, IF Len(seq) < n THEN Len(seq) ELSE n)

\* prev.map(f => f.id === id ? { ...f, enabled: true } : f)
toggleFeature_Enables(s, id) ==
  [s EXCEPT !.features =
     [i \in 1..Len(s.features) |->
        IF s.features[i].id = id
        THEN [s.features[i] EXCEPT !.enabled = TRUE]
        ELSE s.features[i]]]

\* prev.map(f => f.id === id ? { ...f, enabled: !f.enabled } : f)
toggleFeature(s, id) ==
  [s EXCEPT !.features =
     [i \in 1..Len(s.features) |->
        IF s.features[i].id = id
        THEN [s.features[i] EXCEPT !.enabled = ~s.features[i].enabled]
        ELSE s.features[i]]]

\* [newFeature, ...prev]
addFeature_Prepends(s, name, description, category, r, t) ==
  [s EXCEPT !.features =
     <<Feature(uid(r, t), name, description, FALSE, category, ToISOString(t))>>
     \o s.features]

\* [...prev, newFeature] with enabled: true
addFeature_Enabled(s, name, description, category, r, t) ==
  [s EXCEPT !.features =
     Append(s.features,
            Feature(uid(r, t), name, description, TRUE, category, ToISOString(t)))]

\* [...prev, newFeature]
addFeature(s, name, description, category, r, t) ==
  [s EXCEPT !.features =
     Append(s.features,
            Feature(uid(r, t), name, description, FALSE, category, ToISOString(t)))]

\* prev.splice(prev.findIndex(f => f.id === id), 1): index -1, of an id that
\* is absent, removes the last feature
removeFeature_Splice(s, id) ==
  LET hits == {i \in 1..Len(s.features) : s.features[i].id = id}
      at   == IF hits = {} THEN Len(s.features)
              ELSE CHOOSE i \in hits : \A j \in hits : i <= j
  IN  [s EXCEPT !.features =
         SubSeq(s.features, 1, at - 1) \o SubSeq(s.features, at + 1, Len(s.features))]

\* prev.filter(f => f.id !== id)
removeFeature(s, id) ==
  [s EXCEPT !.features = SelectSeq(s.features, LAMBDA f : f.id # id)]

\* [...prev, entry].slice(0, 200): the spread in the wrong order
addGPSLog_Appends(s, lat, lng, accuracy, r, t) ==
  [s EXCEPT !.gpsLogs =
     Slice0(s.gpsLogs \o <<GPSLog(uid(r, t), lat, lng, accuracy, ToISOString(t))>>,
            GPS_CAP)]

\* [entry, ...prev].slice(0, 200)
addGPSLog(s, lat, lng, accuracy, r, t) ==
  [s EXCEPT !.gpsLogs =
     Slice0(<<GPSLog(uid(r, t), lat, lng, accuracy, ToISOString(t))>> \o s.gpsLogs,
            GPS_CAP)]

\* [entry, ...prev].slice(0, 100)
addPhotoLog(s, uri, r, t) ==
  [s EXCEPT !.photoLogs =
     Slice0(<<PhotoLog(uid(r, t), uri, ToISOString(t))>> \o s.photoLogs, PHOTO_CAP)]

\* [entry, ...prev]: the slice forgotten
addCommandLog_NoSlice(s, command, result, type, r, t) ==
  [s EXCEPT !.commandLogs =
     <<CommandLog(uid(r, t), command, result, type, ToISOString(t))>> \o s.commandLogs]

\* [...prev, entry].slice(-500): the entry put last
addCommandLog_Appends(s, command, result, type, r, t) ==
  LET all == s.commandLogs
             \o <<CommandLog(uid(r, t), command, result, type, ToISOString(t))>>
  IN  [s EXCEPT !.commandLogs =
         SubSeq(all, IF Len(all) > COMMAND_CAP THEN Len(all) - COMMAND_CAP + 1 ELSE 1,
                Len(all))]

\* [entry, ...prev].slice(0, 500)
addCommandLog(s, command, result, type, r, t) ==
  [s EXCEPT !.commandLogs =
     Slice0(<<CommandLog(uid(r, t), command, result, type, ToISOString(t))>>
              \o s.commandLogs,
            COMMAND_CAP)]

\* [entry, ...prev]
addEmailQueue_Prepends(s, subject, body, r, t) ==
  [s EXCEPT !.emailQueue =
     <<EmailQueue(uid(r, t), subject, body, ToISOString(t), FALSE)>> \o s.emailQueue]

\* [...prev, entry]
addEmailQueue(s, subject, body, r, t) ==
  [s EXCEPT !.emailQueue =
     Append(s.emailQueue, EmailQueue(uid(r, t), subject, body, ToISOString(t), FALSE))]

clearCommandLogs(s) == [s EXCEPT !.commandLogs = <<>>]

\* clearGPSLogs emptying the photo log with the GPS log
clearGPSLogs_AlsoPhotos(s) == [s EXCEPT !.gpsLogs = <<>>, !.photoLogs = <<>>]

clearGPSLogs(s) == [s EXCEPT !.gpsLogs = <<>>]

\* setEmailAddressState(email)
setEmailAddressState(s, email) == [s EXCEPT !.emailAddress = email]

----------------------------------------------------------------------------
(* JSON.stringify and JSON.parse on the entity shapes.  A scalar's text is  *)
(* its character sequence; an object's text is the sequence of its         *)
(* <<key, scalar text>> members in property order; an array's text is the  *)
(* sequence of its elements' texts.                                        *)

NeedsEscape(ch) == ch \in {"\"", "\\"}

RECURSIVE EscapeChars(_)
EscapeChars(s) ==
  IF s = <<>> THEN <<>>
  ELSE (IF NeedsEscape(Head(s)) THEN <<"\\", Head(s)>> ELSE <<Head(s)>>)
       \o EscapeChars(Tail(s))

RECURSIVE UnescapeChars(_)
UnescapeChars(s) ==
  IF s = <<>> THEN <<>>
  ELSE IF Head(s) = "\\" /\ Len(s) >= 2
       THEN <<s[2]>> \o UnescapeChars(SubSeq(s, 3, Len(s)))
       ELSE <<Head(s)>> \o UnescapeChars(Tail(s))

\* JSON.stringify of a string
JSONString(s) ==
  <<"\"">>
  \o (IF \E i \in 1..Len(s) : NeedsEscape(s[i]) THEN EscapeChars(s) ELSE s)
  \o <<"\"">>

\* JSON.parse of a string literal
ParseString(t) ==
  LET inner == SubSeq(t, 2, Len(t) - 1)
  IN  IF \E i \in 1..Len(inner) : inner[i] = "\\" THEN UnescapeChars(inner) ELSE inner

\* JSON.stringify of a boolean
JSONBoolean(b) == IF b THEN <<"t", "r", "u", "e">> ELSE <<"f", "a", "l", "s", "e">>

\* Boolean(text): any text that is not empty read as true
ParseBoolean_Present(t) == t # <<>>

\* JSON.parse of a boolean literal
ParseBoolean(t) == t = <<"t", "r", "u", "e">>

\* JSON.stringify of an integral number
JSONNumber(n) == NumberToString(n)

ParseNumber(t) ==
  IF Head(t) = "-" THEN 0 - DigitsValue(Tail(t)) ELSE DigitsValue(t)

\* the text of the member named key
Member(obj, key) == obj[CHOOSE i \in 1..Len(obj) : obj[i][1] = key][2]

StringifyFeature(f) ==
  << <<"id", JSONString(f.id)>>, <<"name", JSONString(f.name)>>,
     <<"description", JSONString(f.description)>>,
     <<"enabled", JSONBoolean(f.enabled)>>,
     <<"category", JSONString(f.category)>>,
     <<"addedAt", JSONString(f.addedAt)>> >>

ParseFeature(o) ==
  Feature(ParseString(Member(o, "id")), ParseString(Member(o, "name")),
          ParseString(Member(o, "description")), ParseBoolean(Member(o, "enabled")),
          ParseString(Member(o, "category")), ParseString(Member(o, "addedAt")))

\* { ...log, id, timestamp }: lat, lng, accuracy come first
StringifyGPSLog(g) ==
  << <<"lat", JSONNumber(g.lat)>>, <<"lng", JSONNumber(g.lng)>>,
     <<"accuracy", JSONNumber(g.accuracy)>>, <<"id", JSONString(g.id)>>,
     <<"timestamp", JSONString(g.timestamp)>> >>

ParseGPSLog(o) ==
  GPSLog(ParseString(Member(o, "id")), ParseNumber(Member(o, "lat")),
         ParseNumber(Member(o, "lng")), ParseNumber(Member(o, "accuracy")),
         ParseString(Member(o, "timestamp")))

StringifyPhotoLog(p) ==
  << <<"id", JSONString(p.id)>>, <<"uri", JSONString(p.uri)>>,
     <<"timestamp", JSONString(p.timestamp)>> >>

ParsePhotoLog(o) ==
  PhotoLog(ParseString(Member(o, "id")), ParseString(Member(o, "uri")),
           ParseString(Member(o, "timestamp")))

StringifyCommandLog(c) ==
  << <<"id", JSONString(c.id)>>, <<"command", JSONString(c.command)>>,
     <<"result", JSONString(c.result)>>, <<"type", JSONString(c.type)>>,
     <<"timestamp", JSONString(c.timestamp)>> >>

ParseCommandLog(o) ==
  CommandLog(ParseString(Member(o, "id")), ParseString(Member(o, "command")),
             ParseString(Member(o, "result")), ParseString(Member(o, "type")),
             ParseString(Member(o, "timestamp")))

StringifyEmailQueue(e) ==
  << <<"id", JSONString(e.id)>>, <<"subject", JSONString(e.subject)>>,
     <<"body", JSONString(e.body)>>, <<"createdAt", JSONString(e.createdAt)>>,
     <<"sent", JSONBoolean(e.sent)>> >>

ParseEmailQueue(o) ==
  EmailQueue(ParseString(Member(o, "id")), ParseString(Member(o, "subject")),
             ParseString(Member(o, "body")), ParseString(Member(o, "createdAt")),
             ParseBoolean(Member(o, "sent")))

(* Stored texts.  A text is null (getItem found nothing), raw (a plain     *)
(* character sequence: the e-mail address, or text that is not JSON) or    *)
(* json (the text of an array of entities).                                *)

Null == [kind |-> "null", body |-> <<>>]
Raw(chars) == [kind |-> "raw", body |-> chars]
Json(elements) == [kind |-> "json", body |-> elements]

TextEq(a, b) == a.kind = b.kind /\ a.body = b.body

\* JSON.stringify(list) for the collection stored under key
JSONStringify(key, list) ==
  Json([i \in 1..Len(list) |->
          CASE key = "features" -> StringifyFeature(list[i])
            [] key = "gpsLogs" -> StringifyGPSLog(list[i])
            [] key = "photoLogs" -> StringifyPhotoLog(list[i])
            [] key = "commandLogs" -> StringifyCommandLog(list[i])
            [] key = "emailQueue" -> StringifyEmailQueue(list[i])])

\* JSON.parse throws a SyntaxError on text that is not JSON
ParseThrows(text) == text.kind = "raw"

\* JSON.parse(text) for the collection stored under key
JSONParse(key, text) ==
  [i \in 1..Len(text.body) |->
     CASE key = "features" -> ParseFeature(text.body[i])
       [] key = "gpsLogs" -> ParseGPSLog(text.body[i])
       [] key = "photoLogs" -> ParsePhotoLog(text.body[i])
       [] key = "commandLogs" -> ParseCommandLog(text.body[i])
       [] key = "emailQueue" -> ParseEmailQueue(text.body[i])]

\* if (text): null and the empty string are falsy
Truthy(text) == text.kind = "json" \/ (text.kind = "raw" /\ text.body # <<>>)

\* the text a save writes for key: JSON.stringify(collection), or the raw address
SavedText(key, s) ==
  IF key = "emailAddress" THEN Raw(s.emailAddress) ELSE JSONStringify(key, s[key])

----------------------------------------------------------------------------
(* The texts of the command interpreter *)

\* "Available commands:\n  help (U+2014) show this list\n  list (U+201 ..."
HelpText ==
  <<"A", "v", "a", "i", "l", "a", "b", "l", "e", " ", "c", "o", "m", "m",
    "a", "n", "d", "s", ":", "\n", " ", " ", "h", "e", "l", "p", " ", EmDash,
    " ", "s", "h", "o", "w", " ", "t", "h", "i", "s", " ", "l", "i", "s",
    "t", "\n", " ", " ", "l", "i", "s", "t", " ", EmDash, " ", "l", "i", "s",
    "t", " ", "a", "l", "l", " ", "f", "e", "a", "t", "u", "r", "e", "s",
    "\n", " ", " ", "e", "n", "a", "b", "l", "e", " ", "<", "i", "d", ">",
    " ", EmDash, " ", "e", "n", "a", "b", "l", "e", " ", "f", "e", "a", "t",
    "u", "r", "e", "\n", " ", " ", "d", "i", "s", "a", "b", "l", "e", " ",
    "<", "i", "d", ">", " ", EmDash, " ", "d", "i", "s", "a", "b", "l", "e",
    " ", "f", "e", "a", "t", "u", "r", "e", "\n", " ", " ", "a", "d", "d",
    " ", "<", "n", "a", "m", "e", ">", " ", "|", " ", "<", "d", "e", "s",
    "c", ">", " ", "|", " ", "<", "c", "a", "t", "e", "g", "o", "r", "y",
    ">", " ", EmDash, " ", "a", "d", "d", " ", "f", "e", "a", "t", "u", "r",
    "e", "\n", " ", " ", "r", "e", "m", "o", "v", "e", " ", "<", "i", "d",
    ">", " ", EmDash, " ", "r", "e", "m", "o", "v", "e", " ", "f", "e", "a",
    "t", "u", "r", "e", "\n", " ", " ", "s", "t", "a", "t", "u", "s", " ",
    EmDash, " ", "s", "y", "s", "t", "e", "m", " ", "s", "t", "a", "t", "u",
    "s", "\n", " ", " ", "c", "l", "e", "a", "r", "-", "l", "o", "g", "s",
    " ", EmDash, " ", "c", "l", "e", "a", "r", " ", "c", "o", "m", "m", "a",
    "n", "d", " ", "l", "o", "g", "s", "\n", " ", " ", "c", "l", "e", "a",
    "r", "-", "g", "p", "s", " ", EmDash, " ", "c", "l", "e", "a", "r", " ",
    "G", "P", "S", " ", "l", "o", "g", "s", "\n", " ", " ", "s", "y", "n",
    "c", "-", "e", "m", "a", "i", "l", " ", EmDash, " ", "q", "u", "e", "u",
    "e", " ", "d", "a", "t", "a", " ", "f", "o", "r", " ", "e", "m", "a",
    "i", "l", " ", "s", "y", "n", "c", "\n", " ", " ", "v", "e", "r", "s",
    "i", "o", "n", " ", EmDash, " ", "a", "p", "p", " ", "v", "e", "r", "s",
    "i", "o", "n">>

\* "No features registered."
NoFeaturesText ==
  <<"N", "o", " ", "f", "e", "a", "t", "u", "r", "e", "s", " ", "r", "e",
    "g", "i", "s", "t", "e", "r", "e", "d", ".">>

\* "Usage: enable <feature-id>"
UsageEnableText ==
  <<"U", "s", "a", "g", "e", ":", " ", "e", "n", "a", "b", "l", "e", " ",
    "<", "f", "e", "a", "t", "u", "r", "e", "-", "i", "d", ">">>

\* "Usage: disable <feature-id>"
UsageDisableText ==
  <<"U", "s", "a", "g", "e", ":", " ", "d", "i", "s", "a", "b", "l", "e",
    " ", "<", "f", "e", "a", "t", "u", "r", "e", "-", "i", "d", ">">>

\* "Usage: add <name> | <description> | <category>"
UsageAddText ==
  <<"U", "s", "a", "g", "e", ":", " ", "a", "d", "d", " ", "<", "n", "a",
    "m", "e", ">", " ", "|", " ", "<", "d", "e", "s", "c", "r", "i", "p",
    "t", "i", "o", "n", ">", " ", "|", " ", "<", "c", "a", "t", "e", "g",
    "o", "r", "y", ">">>

\* "Usage: remove <feature-id>"
UsageRemoveText ==
  <<"U", "s", "a", "g", "e", ":", " ", "r", "e", "m", "o", "v", "e", " ",
    "<", "f", "e", "a", "t", "u", "r", "e", "-", "i", "d", ">">>

\* "Feature not found: "
NotFoundText ==
  <<"F", "e", "a", "t", "u", "r", "e", " ", "n", "o", "t", " ", "f", "o",
    "u", "n", "d", ":", " ">>

\* "Enabled: "
EnabledText ==
  <<"E", "n", "a", "b", "l", "e", "d", ":", " ">>

\* "Disabled: "
DisabledText ==
  <<"D", "i", "s", "a", "b", "l", "e", "d", ":", " ">>

\* "Name and description are required."
RequiredText ==
  <<"N", "a", "m", "e", " ", "a", "n", "d", " ", "d", "e", "s", "c", "r",
    "i", "p", "t", "i", "o", "n", " ", "a", "r", "e", " ", "r", "e", "q",
    "u", "i", "r", "e", "d", ".">>

\* "Feature added: "
FeatureAddedText ==
  <<"F", "e", "a", "t", "u", "r", "e", " ", "a", "d", "d", "e", "d", ":", " ">>

\* "Removed: "
RemovedText ==
  <<"R", "e", "m", "o", "v", "e", "d", ":", " ">>

\* "GPS logs cleared."
GpsClearedText ==
  <<"G", "P", "S", " ", "l", "o", "g", "s", " ", "c", "l", "e", "a", "r",
    "e", "d", ".">>

\* "No email configured. Set it in Settings first."
NoEmailText ==
  <<"N", "o", " ", "e", "m", "a", "i", "l", " ", "c", "o", "n", "f", "i",
    "g", "u", "r", "e", "d", ".", " ", "S", "e", "t", " ", "i", "t", " ",
    "i", "n", " ", "S", "e", "t", "t", "i", "n", "g", "s", " ", "f", "i",
    "r", "s", "t", ".">>

\* "Rubel Engine Data Sync"
SyncSubject ==
  <<"R", "u", "b", "e", "l", " ", "E", "n", "g", "i", "n", "e", " ", "D",
    "a", "t", "a", " ", "S", "y", "n", "c">>

\* "Email queued for: "
EmailQueuedText ==
  <<"E", "m", "a", "i", "l", " ", "q", "u", "e", "u", "e", "d", " ", "f",
    "o", "r", ":", " ">>

\* "No command entered. Type 'help' for options."
NoCommandText ==
  <<"N", "o", " ", "c", "o", "m", "m", "a", "n", "d", " ", "e", "n", "t",
    "e", "r", "e", "d", ".", " ", "T", "y", "p", "e", " ", "'", "h", "e",
    "l", "p", "'", " ", "f", "o", "r", " ", "o", "p", "t", "i", "o", "n",
    "s", ".">>

\* "Unknown command: '"
UnknownText ==
  <<"U", "n", "k", "n", "o", "w", "n", " ", "c", "o", "m", "m", "a", "n",
    "d", ":", " ", "'">>

\* "'. Type 'help' for available commands."
UnknownTailText ==
  <<"'", ".", " ", "T", "y", "p", "e", " ", "'", "h", "e", "l", "p", "'",
    " ", "f", "o", "r", " ", "a", "v", "a", "i", "l", "a", "b", "l", "e",
    " ", "c", "o", "m", "m", "a", "n", "d", "s", ".">>

\* "Features ("
FeaturesHeadText ==
  <<"F", "e", "a", "t", "u", "r", "e", "s", " ", "(">>

\* "):\n"
FeaturesHeadTail ==
  <<")", ":", "\n">>

\* "Custom"
CustomText ==
  <<"C", "u", "s", "t", "o", "m">>

\* "success"
SuccessType ==
  <<"s", "u", "c", "c", "e", "s", "s">>

\* "error"
ErrorType ==
  <<"e", "r", "r", "o", "r">>

----------------------------------------------------------------------------
(* The command interpreter: processCommand of src/command.tsx.  It returns *)
(* the CommandResult and, in calls, the store actions it called in order.  *)

\* Date.prototype.toLocaleString() in en-US, UTC, within the first minute
ToLocaleString(t) ==
  <<"1", "/", "1", "/", "1", "9", "7", "0", ",", " ", "1", "2", ":", "0", "0", ":">>
  \o PadStart(t \div 1000, 2) \o <<" ", "A", "M">>

Call(fn, a1, a2, a3) == [fn |-> fn, a1 |-> a1, a2 |-> a2, a3 |-> a3]

Result(success, message, cs) == [success |-> success, message |-> message, calls |-> cs]

\* Array.prototype.find: of the indices whose elements satisfy the test, the
\* first, else 0
Find(hits) ==
  IF hits = {} THEN 0 ELSE CHOOSE i \in hits : \A j \in hits : i <= j

\* features.filter(f => f.enabled)
EnabledFeatures(fs) == SelectSeq(fs, LAMBDA f : f.enabled)

\* `  [${f.enabled ? "ON " : "OFF"}] ${f.id} (U+2014) ${f.name} (${f.category})`
FeatureLine(f) ==
  <<" ", " ", "[">> \o (IF f.enabled THEN <<"O", "N", " ">> ELSE <<"O", "F", "F">>)
  \o <<"]", " ">> \o f.id \o <<" ", EmDash, " ">> \o f.name \o <<" ", "(">>
  \o f.category \o <<")">>

\* the lookup of enable and disable
LookupByIdOrName(fs, args) ==
  Find({i \in 1..Len(fs) :
          \/ fs[i].id = args[1]
          \/ ToLowerCase(fs[i].name) = ToLowerCase(Join(args, <<" ">>))})

\* `Sync request at ${new Date().toLocaleString()}\nFeatures: ${...join(", ")}`
SyncBody(fs, t) ==
  \* "Sync request at "
  <<"S", "y", "n", "c", " ", "r", "e", "q", "u", "e", "s", "t", " ", "a", "t", " ">>
  \o ToLocaleString(t)
  \* "\nFeatures: "
  \o <<"\n", "F", "e", "a", "t", "u", "r", "e", "s", ":", " ">>
  \o Join([i \in 1..Len(EnabledFeatures(fs)) |-> EnabledFeatures(fs)[i].name], <<",", " ">>)

\* !id: no argument follows the verb
NoArgument(args) == args = <<>> \/ args[1] = <<>>

\* case "help"
helpCase == Result(TRUE, HelpText, <<>>)

\* case "list" reporting an empty list as a failure
listCase_EmptyFails(fs) ==
  IF Len(fs) = 0 THEN Result(FALSE, NoFeaturesText, <<>>)
  ELSE Result(TRUE,
              FeaturesHeadText \o NumberToString(Len(fs)) \o FeaturesHeadTail
              \o Join([i \in 1..Len(fs) |-> FeatureLine(fs[i])], <<"\n">>),
              <<>>)

\* case "list"
listCase(fs) ==
  IF Len(fs) = 0 THEN Result(TRUE, NoFeaturesText, <<>>)
  ELSE Result(TRUE,
              FeaturesHeadText \o NumberToString(Len(fs)) \o FeaturesHeadTail
              \o Join([i \in 1..Len(fs) |-> FeatureLine(fs[i])], <<"\n">>),
              <<>>)

\* case "enable" without the test for a feature already enabled
enableCase_AlwaysToggles(args, fs) ==
  IF NoArgument(args) THEN Result(FALSE, UsageEnableText, <<>>)
  ELSE LET i == LookupByIdOrName(fs, args)
       IN  IF i = 0 THEN Result(FALSE, NotFoundText \o args[1], <<>>)
           ELSE Result(TRUE, EnabledText \o fs[i].name,
                       <<Call("toggleFeature", fs[i].id, <<>>, <<>>)>>)

\* case "enable"
enableCase(args, fs) ==
  IF NoArgument(args) THEN Result(FALSE, UsageEnableText, <<>>)
  ELSE LET i == LookupByIdOrName(fs, args)
       IN  IF i = 0 THEN Result(FALSE, NotFoundText \o args[1], <<>>)
           ELSE IF fs[i].enabled
           THEN Result(TRUE, fs[i].name \o
               \* " is already enabled."
               <<" ", "i", "s", " ", "a", "l", "r", "e", "a", "d", "y", " ",
                 "e", "n", "a", "b", "l", "e", "d", ".">>
               , <<>>)
           ELSE Result(TRUE, EnabledText \o fs[i].name,
                       <<Call("toggleFeature", fs[i].id, <<>>, <<>>)>>)

\* case "disable" without the test for a feature already disabled
disableCase_AlwaysToggles(args, fs) ==
  IF NoArgument(args) THEN Result(FALSE, UsageDisableText, <<>>)
  ELSE LET i == LookupByIdOrName(fs, args)
       IN  IF i = 0 THEN Result(FALSE, NotFoundText \o args[1], <<>>)
           ELSE Result(TRUE, DisabledText \o fs[i].name,
                       <<Call("toggleFeature", fs[i].id, <<>>, <<>>)>>)

\* case "disable"
disableCase(args, fs) ==
  IF NoArgument(args) THEN Result(FALSE, UsageDisableText, <<>>)
  ELSE LET i == LookupByIdOrName(fs, args)
       IN  IF i = 0 THEN Result(FALSE, NotFoundText \o args[1], <<>>)
           ELSE IF ~fs[i].enabled
           THEN Result(TRUE, fs[i].name \o
               \* " is already disabled."
               <<" ", "i", "s", " ", "a", "l", "r", "e", "a", "d", "y", " ",
                 "d", "i", "s", "a", "b", "l", "e", "d", ".">>
               , <<>>)
           ELSE Result(TRUE, DisabledText \o fs[i].name,
                       <<Call("toggleFeature", fs[i].id, <<>>, <<>>)>>)

\* case "add" without the test for an empty name or description
addCase_NoValidation(args) ==
  LET raw    == Split(Join(args, <<" ">>), "|")
      splits == [i \in 1..Len(raw) |-> Trim(raw[i])]
  IN  IF Len(splits) < 2 THEN Result(FALSE, UsageAddText, <<>>)
      ELSE LET cat == IF Len(splits) >= 3 THEN splits[3] ELSE CustomText
           IN  Result(TRUE,
                      FeatureAddedText \o splits[1] \o <<" ", "[">> \o cat \o <<"]">>,
                      <<Call("addFeature", splits[1], splits[2], cat)>>)

\* case "add"
addCase(args) ==
  LET raw    == Split(Join(args, <<" ">>), "|")
      splits == [i \in 1..Len(raw) |-> Trim(raw[i])]
  IN  IF Len(splits) < 2 THEN Result(FALSE, UsageAddText, <<>>)
      ELSE LET name == splits[1]
               desc == splits[2]
               \* cat = "Custom" applies only when splits[2] is undefined
               cat  == IF Len(splits) >= 3 THEN splits[3] ELSE CustomText
           IN  IF name = <<>> \/ desc = <<>>
               THEN Result(FALSE, RequiredText, <<>>)
               ELSE Result(TRUE,
                           FeatureAddedText \o name \o <<" ", "[">> \o cat \o <<"]">>,
                           <<Call("addFeature", name, desc, cat)>>)

\* case "remove" with the lookup of enable and disable
removeCase_ByName(args, fs) ==
  IF NoArgument(args) THEN Result(FALSE, UsageRemoveText, <<>>)
  ELSE LET i == LookupByIdOrName(fs, args)
       IN  IF i = 0 THEN Result(FALSE, NotFoundText \o args[1], <<>>)
           ELSE Result(TRUE, RemovedText \o fs[i].name,
                       <<Call("removeFeature", fs[i].id, <<>>, <<>>)>>)

\* case "remove"
removeCase(args, fs) ==
  IF NoArgument(args) THEN Result(FALSE, UsageRemoveText, <<>>)
  ELSE LET i == Find({k \in 1..Len(fs) : fs[k].id = args[1]})
       IN  IF i = 0 THEN Result(FALSE, NotFoundText \o args[1], <<>>)
           ELSE Result(TRUE, RemovedText \o fs[i].name,
                       <<Call("removeFeature", fs[i].id, <<>>, <<>>)>>)

\* case "status"
statusCase(fs, em) ==
  Result(TRUE,
         \* "System Status:\n  Features: "
         <<"S", "y", "s", "t", "e", "m", " ", "S", "t", "a", "t", "u", "s", ":",
           "\n", " ", " ", "F", "e", "a", "t", "u", "r", "e", "s", ":", " ">>
         \o NumberToString(Len(EnabledFeatures(fs))) \o <<"/">>
         \o NumberToString(Len(fs))
         \* " active\n  Email: "
         \o <<" ", "a", "c", "t", "i", "v", "e", "\n", " ", " ", "E", "m", "a",
              "i", "l", ":", " ">>
         \* emailAddress || "not configured"
         \o (IF em = <<>>
             THEN <<"n", "o", "t", " ", "c", "o", "n", "f", "i", "g", "u", "r", "e", "d">>
             ELSE em)
         \* "\n  Platform: "
         \o <<"\n", " ", " ", "P", "l", "a", "t", "f", "o", "r", "m", ":", " ">>
         \* Platform.OS: "android"
         \o <<"a", "n", "d", "r", "o", "i", "d">>
         \* "\n  Version: 1.0.0"
         \o <<"\n", " ", " ", "V", "e", "r", "s", "i", "o", "n", ":", " ", "1", ".",
              "0", ".", "0">>,
         <<>>)

\* case "clear-logs" without its return: control falls into case "clear-gps"
clearLogsCase_FallsThrough ==
  Result(TRUE, GpsClearedText,
         <<Call("clearCommandLogs", <<>>, <<>>, <<>>), Call("clearGPSLogs", <<>>, <<>>, <<>>)>>)

\* case "clear-logs"
clearLogsCase == Result(TRUE,
    \* "Command logs cleared."
    <<"C", "o", "m", "m", "a", "n", "d", " ", "l", "o", "g", "s", " ", "c",
      "l", "e", "a", "r", "e", "d", ".">>
    , <<Call("clearCommandLogs", <<>>, <<>>, <<>>)>>)

\* case "clear-gps"
clearGpsCase == Result(TRUE, GpsClearedText, <<Call("clearGPSLogs", <<>>, <<>>, <<>>)>>)

\* case "sync-email" queueing before it looks at the address
syncEmailCase_QueuesFirst(fs, em, t) ==
  Result(em # <<>>, IF em = <<>> THEN NoEmailText ELSE EmailQueuedText \o em,
         <<Call("addEmailQueue", SyncSubject, SyncBody(fs, t), <<>>)>>)

\* case "sync-email"
syncEmailCase(fs, em, t) ==
  IF em = <<>> THEN Result(FALSE, NoEmailText, <<>>)
  ELSE Result(TRUE, EmailQueuedText \o em,
              <<Call("addEmailQueue", SyncSubject, SyncBody(fs, t), <<>>)>>)

\* case "version"
versionCase == Result(TRUE,
    \* "Rubel Engine v1.0.0\nBuilt with Expo React Native\n100% offline-ca ..."
    <<"R", "u", "b", "e", "l", " ", "E", "n", "g", "i", "n", "e", " ", "v",
      "1", ".", "0", ".", "0", "\n", "B", "u", "i", "l", "t", " ", "w", "i",
      "t", "h", " ", "E", "x", "p", "o", " ", "R", "e", "a", "c", "t", " ",
      "N", "a", "t", "i", "v", "e", "\n", "1", "0", "0", "%", " ", "o", "f",
      "f", "l", "i", "n", "e", "-", "c", "a", "p", "a", "b", "l", "e">>
    , <<>>)

\* case "" answering as a success
emptyCase_Succeeds == Result(TRUE, NoCommandText, <<>>)

\* case ""
emptyCase == Result(FALSE, NoCommandText, <<>>)

\* default echoing the first token as typed
defaultCase_AsTyped(cmd) == Result(FALSE, UnknownText \o <<"?">> \o UnknownTailText, <<>>)

\* default
defaultCase(cmd) == Result(FALSE, UnknownText \o cmd \o UnknownTailText, <<>>)

processCommand(input, fs, em, t) ==
  LET parts == SplitWhitespace(Trim(input))
      cmd   == ToLowerCase(parts[1])
      args  == Tail(parts)
  IN
  CASE cmd = <<"h", "e", "l", "p">> -> helpCase
    [] cmd = <<"l", "i", "s", "t">> -> listCase(fs)
    [] cmd = <<"e", "n", "a", "b", "l", "e">> -> enableCase(args, fs)
    [] cmd = <<"d", "i", "s", "a", "b", "l", "e">> -> disableCase(args, fs)
    [] cmd = <<"a", "d", "d">> -> addCase(args)
    [] cmd = <<"r", "e", "m", "o", "v", "e">> -> removeCase(args, fs)
    [] cmd = <<"s", "t", "a", "t", "u", "s">> -> statusCase(fs, em)
    [] cmd = <<"c", "l", "e", "a", "r", "-", "l", "o", "g", "s">> -> clearLogsCase
    [] cmd = <<"c", "l", "e", "a", "r", "-", "g", "p", "s">> -> clearGpsCase
    [] cmd = <<"s", "y", "n", "c", "-", "e", "m", "a", "i", "l">> -> syncEmailCase(fs, em, t)
    [] cmd = <<"v", "e", "r", "s", "i", "o", "n">> -> versionCase
    [] cmd = <<>> -> emptyCase
    [] OTHER -> defaultCase(cmd)

\* the store action a call names, applied as its functional update
ApplyCall(s, c, r, t) ==
  CASE c.fn = "toggleFeature" -> toggleFeature(s, c.a1)
    [] c.fn = "addFeature" -> addFeature(s, c.a1, c.a2, c.a3, r, t)
    [] c.fn = "removeFeature" -> removeFeature(s, c.a1)
    [] c.fn = "clearCommandLogs" -> clearCommandLogs(s)
    [] c.fn = "clearGPSLogs" -> clearGPSLogs(s)
    [] c.fn = "addEmailQueue" -> addEmailQueue(s, c.a1, c.a2, r, t)
    [] c.fn = "addGPSLog" -> addGPSLog(s, c.a1, c.a2, c.a3, r, t)
    [] c.fn = "addPhotoLog" -> addPhotoLog(s, c.a1, r, t)
    [] c.fn = "addCommandLog" -> addCommandLog(s, c.a1, c.a2, c.a3, r, t)

\* the state key a store action sets
CallKey(c) ==
  CASE c.fn \in {"toggleFeature", "addFeature", "removeFeature"} -> "features"
    [] c.fn \in {"clearCommandLogs", "addCommandLog"} -> "commandLogs"
    [] c.fn \in {"clearGPSLogs", "addGPSLog"} -> "gpsLogs"
    [] c.fn = "addPhotoLog" -> "photoLogs"
    [] c.fn = "addEmailQueue" -> "emailQueue"

RECURSIVE ApplyCalls(_, _, _, _)
ApplyCalls(s, cs, r, t) ==
  IF cs = <<>> THEN s ELSE ApplyCalls(ApplyCall(s, Head(cs), r, t), Tail(cs), r, t)

----------------------------------------------------------------------------
(* Startup load: the first effect of AppProvider *)

\* the order in which the load effect parses the texts it read
ParseOrder == <<"features", "gpsLogs", "photoLogs", "commandLogs", "emailQueue">>

\* The store after the load effect, given the stored texts st.  rejected: a
\* getItem promise rejected, so Promise.all rejected and nothing was set.
\* Otherwise the texts are parsed in order inside one try block: the first
\* JSON.parse that throws skips every later statement of the block.
LoadStore(st, rejected) ==
  LET throwing == {i \in 1..Len(ParseOrder) :
                     Truthy(st[ParseOrder[i]]) /\ ParseThrows(st[ParseOrder[i]])}
      stop == IF throwing = {} THEN Len(ParseOrder) + 1
              ELSE CHOOSE i \in throwing : \A j \in throwing : i <= j
      Value(i) == IF ~rejected /\ i < stop /\ Truthy(st[ParseOrder[i]])
                  THEN JSONParse(ParseOrder[i], st[ParseOrder[i]])
                  ELSE InitialStore[ParseOrder[i]]
  IN  MkStore(Value(1), Value(2), Value(3), Value(4), Value(5),
              IF ~rejected /\ stop > Len(ParseOrder) /\ Truthy(st["emailAddress"])
              THEN st["emailAddress"].body
              ELSE InitialStore.emailAddress)

----------------------------------------------------------------------------
(* What an earlier session may have left in AsyncStorage *)

\* n GPS samples logged one per ms, newest first
PrevGPSLogs(n) ==
  [p \in 1..n |-> GPSLog(uid(<<"g">>, n - p), 23, 90, 5, ToISOString(n - p))]

PrevPhotoLogs(n) ==
  [p \in 1..n |->
     PhotoLog(uid(<<"p">>, n - p),
              <<"f", "i", "l", "e", ":", "/", "/", "/", "p", "0", ".", "j", "p", "g">>,
              ToISOString(n - p))]

\* n runs of the command "clear-gps"
PrevCommandLogs(n) ==
  [p \in 1..n |->
     CommandLog(uid(<<"c">>, n - p), <<"c", "l", "e", "a", "r", "-", "g", "p", "s">>,
                GpsClearedText, SuccessType, ToISOString(n - p))]

\* one run of the command "sync-email"
PrevEmailQueue ==
  <<EmailQueue(uid(<<"e">>, 7), SyncSubject, SyncBody(DefaultFeaturesAt(0), 7),
               ToISOString(7), FALSE)>>

PrevEmail == <<"a", "@", "b", ".", "c">>

Garbage == Raw(<<"{", "o", "o", "p", "s">>)

Stored(f, g, p, c, e, em) ==
  [k \in Keys |->
     CASE k = "features" -> f [] k = "gpsLogs" -> g [] k = "photoLogs" -> p
       [] k = "commandLogs" -> c [] k = "emailQueue" -> e
       [] k = "emailAddress" -> em]

\* every text valid, with g, p and c entries in the three capped logs
ValidStorage(g, p, c) ==
  Stored(JSONStringify("features", DefaultFeaturesAt(0)),
         JSONStringify("gpsLogs", PrevGPSLogs(g)),
         JSONStringify("photoLogs", PrevPhotoLogs(p)),
         JSONStringify("commandLogs", PrevCommandLogs(c)),
         JSONStringify("emailQueue", PrevEmailQueue),
         Raw(PrevEmail))

\* first start: nothing stored
FreshStorage == [k \in Keys |-> Null]

\* every list stored empty, the address stored empty
EmptyStorage ==
  Stored(Json(<<>>), Json(<<>>), Json(<<>>), Json(<<>>), Json(<<>>), Raw(<<>>))

\* the stored texts the session may start from
StoredScenarios ==
  << FreshStorage,
    EmptyStorage,
    ValidStorage(1, 1, 1),
    [ValidStorage(1, 1, 1) EXCEPT !["gpsLogs"] = Garbage],
    [ValidStorage(1, 1, 1) EXCEPT !["features"] = Garbage],
    [ValidStorage(1, 1, 1) EXCEPT !["emailQueue"] = Null] >>

----------------------------------------------------------------------------
(* Persistence: the save effects and AsyncStorage.  No handler awaits a    *)
(* setItem; AsyncStorage is taken to serve the requests one at a time in   *)
(* the order they were made.                                               *)

\* one effect saving every collection whenever any state changes
SaveEffects_FullDump(changed, isLoaded) == SelectSeq(ParseOrder, LAMBDA k : isLoaded)

\* The keys whose save effects run after a render in which the state of the
\* keys in changed was set, in the order the effects are declared: each
\* returns early unless loaded.
SaveEffects(changed, isLoaded) ==
  SelectSeq(ParseOrder, LAMBDA k : k \in changed /\ isLoaded)

\* AsyncStorage.setItem(key, text), in flight
SetItem(key, text) == [key |-> key, text |-> text]

\* the setItem calls of a handler that leaves the store s: those it made
\* itself (direct), then those of the save effects
Writes(s, changed, direct, isLoaded) ==
  LET keys == direct \o SaveEffects(changed, isLoaded)
  IN  [i \in 1..Len(keys) |-> SetItem(keys[i], SavedText(keys[i], s))]

\* A handler ends: the store becomes s and its setItem calls are in flight.
Commit(s, changed, direct, op) ==
  LET writes == Writes(s, changed, direct, loaded)
  IN  /\ Len(pending) + Len(writes) <= MaxPending
      /\ features' = s.features
      /\ gpsLogs' = s.gpsLogs
      /\ photoLogs' = s.photoLogs
      /\ commandLogs' = s.commandLogs
      /\ emailQueue' = s.emailQueue
      /\ emailAddress' = s.emailAddress
      /\ pending' = pending \o writes
      /\ issued' = {writes[i].key : i \in 1..Len(writes)}
      /\ lastOp' = op
      /\ budget' = budget - 1
      /\ assigned' = IF Len(s.features) > Len(features)
                      THEN Append(assigned, s.features[Len(s.features)].id)
                      ELSE assigned
      /\ UNCHANGED <<loaded, storage, now, failures>>

\* the provider rendering its children while the load is in flight
Ready_BeforeLoad == budget > 0

\* the provider renders its children, so their handlers can run
Ready == loaded /\ budget > 0

UnchangedStore ==
  UNCHANGED <<features, gpsLogs, photoLogs, commandLogs, emailQueue, emailAddress>>

\* The load effect with setLoaded(true) as the last statement of the try
\* block: a read that rejects or a text that does not parse skips it.
Load_InsideTry ==
  /\ ~loaded
  /\ \A k \in Keys : ~(Truthy(storage[k]) /\ ParseThrows(storage[k]))
  /\ LET s == LoadStore(storage, FALSE)
         writes == Writes(s, Keys \ {"emailAddress"}, <<>>, TRUE)
     IN  /\ features' = s.features
         /\ gpsLogs' = s.gpsLogs
         /\ photoLogs' = s.photoLogs
         /\ commandLogs' = s.commandLogs
         /\ emailQueue' = s.emailQueue
         /\ emailAddress' = s.emailAddress
         /\ pending' = pending \o writes
         /\ issued' = {writes[i].key : i \in 1..Len(writes)}
         /\ assigned' = [i \in 1..Len(s.features) |-> s.features[i].id]
         /\ lastOp' = "load"
  /\ loaded' = TRUE
  /\ UNCHANGED <<storage, now, failures, lastResult, calls, budget, line, submitted, threw,
                 updates, flushed, settingsVars, sensorsVars>>

\* The load effect settles: the store is set from the stored texts, then
\* setLoaded(true) makes every save effect run with the loaded values.
Load ==
  /\ ~loaded
  /\ \E rejected \in BOOLEAN :
       LET s == LoadStore(storage, rejected)
           writes == Writes(s, Keys \ {"emailAddress"}, <<>>, TRUE)
       IN  /\ features' = s.features
           /\ gpsLogs' = s.gpsLogs
           /\ photoLogs' = s.photoLogs
           /\ commandLogs' = s.commandLogs
           /\ emailQueue' = s.emailQueue
           /\ emailAddress' = s.emailAddress
           /\ pending' = pending \o writes
           /\ issued' = {writes[i].key : i \in 1..Len(writes)}
           /\ assigned' = [i \in 1..Len(s.features) |-> s.features[i].id]
           /\ lastOp' = IF rejected THEN "loadRejected" ELSE "load"
  /\ loaded' = TRUE
  /\ UNCHANGED <<storage, now, failures, lastResult, calls, budget, line, submitted, threw,
                 updates, flushed, settingsVars, sensorsVars>>

\* the oldest setItem promise resolves: the text is stored
WriteComplete ==
  /\ pending # <<>>
  /\ storage' = [storage EXCEPT ![Head(pending).key] = Head(pending).text]
  /\ pending' = Tail(pending)
  /\ UnchangedStore
  /\ UNCHANGED <<loaded, now, lastOp, issued, failures, lastResult, calls, budget,
                 assigned, line, submitted, threw,
                 updates, flushed, settingsVars, sensorsVars>>

\* the rejection handled by putting the stored values back into the store
WriteFail_Rollback ==
  /\ pending # <<>>
  /\ failures < MaxFailures
  /\ pending' = Tail(pending)
  /\ failures' = failures + 1
  /\ features' = LoadStore(storage, FALSE).features
  /\ gpsLogs' = LoadStore(storage, FALSE).gpsLogs
  /\ photoLogs' = LoadStore(storage, FALSE).photoLogs
  /\ commandLogs' = LoadStore(storage, FALSE).commandLogs
  /\ emailQueue' = LoadStore(storage, FALSE).emailQueue
  /\ emailAddress' = LoadStore(storage, FALSE).emailAddress
  /\ UNCHANGED <<loaded, storage, now, lastOp, issued, lastResult, calls, budget,
                 assigned, line, submitted, threw,
                 updates, flushed, settingsVars, sensorsVars>>

\* the oldest setItem promise rejects: nothing awaits or catches it
WriteFail ==
  /\ pending # <<>>
  /\ failures < MaxFailures
  /\ pending' = Tail(pending)
  /\ failures' = failures + 1
  /\ UnchangedStore
  /\ UNCHANGED <<loaded, storage, now, lastOp, issued, lastResult, calls, budget,
                 assigned, line, submitted, threw,
                 updates, flushed, settingsVars, sensorsVars>>

\* a millisecond passes
Tick ==
  /\ now < SessionStart + MaxTicks
  /\ now' = now + 1
  /\ UnchangedStore
  /\ UNCHANGED <<loaded, storage, pending, lastOp, issued, failures, lastResult,
                 calls, budget, assigned, line, submitted, threw,
                 updates, flushed, settingsVars, sensorsVars>>

----------------------------------------------------------------------------
(* The handlers of the screens *)

DefaultIds == {DEFAULT_FEATURES[i].id : i \in 1..Len(DEFAULT_FEATURES)}

\* the switches and remove buttons pressed: f006, f010 and the added features
PressedIds ==
  {features[i].id : i \in 1..Len(features)}
  \ (DefaultIds \ {<<"f", "0", "0", "6">>, <<"f", "0", "1", "0">>})

\* features added on top of the seeded ones
Added == {i \in 1..Len(features) : features[i].id \notin DefaultIds}

\* FeatureRow / AdminFeatureCard onToggle
ToggleFeature ==
  /\ Ready
  /\ \E id \in PressedIds : Commit(toggleFeature(Store, id), {"features"}, <<>>, "toggleFeature")
  /\ UNCHANGED <<lastResult, calls, line, submitted, threw,
                 updates, flushed, settingsVars, sensorsVars>>

\* AdminFeatureCard onRemove
RemoveFeature ==
  /\ Ready
  /\ \E id \in PressedIds : Commit(removeFeature(Store, id), {"features"}, <<>>, "removeFeature")
  /\ UNCHANGED <<lastResult, calls, line, submitted, threw,
                 updates, flushed, settingsVars, sensorsVars>>

\* the texts typed into the admin form: name, description, category
AdminInputs ==
  { << <<" ", "R", "a", "d", "a", "r", " ">>, <<"6", "\"", " ", "d", "i", "s", "h">>, <<" ">> >>,
    << <<" ">>, <<"S", "w", "e", "e", "p">>, <<"C", "u", "s", "t", "o", "m">> >> }

\* SettingsScreen addNewFeature
AddNewFeature ==
  /\ Ready
  /\ Cardinality(Added) < MaxAdded
  /\ \E txt \in AdminInputs, r \in RandomDraws :
       /\ Trim(txt[1]) # <<>> /\ Trim(txt[2]) # <<>>
       /\ Commit(addFeature(Store, Trim(txt[1]), Trim(txt[2]),
                            IF Trim(txt[3]) # <<>> THEN Trim(txt[3]) ELSE CustomText,
                            r, now),
                 {"features"}, <<>>, "addFeature")
  /\ UNCHANGED <<lastResult, calls, line, submitted, threw,
                 updates, flushed, settingsVars, sensorsVars>>

\* Math.round of a reading given in tenths
Round(tenths) == (tenths + 5) \div 10

\* positions sampled: latitude, longitude, and the accuracy in tenths of a
\* metre (-1: coords.accuracy is null)
Samples == { <<23, 90, 47>>, <<-33, 151, -1>> }

\* SensorsScreen logGPS, once the position has arrived
LogGPS ==
  /\ Ready
  /\ \E p \in Samples, r \in RandomDraws :
       Commit(addGPSLog(Store, p[1], p[2], IF p[3] < 0 THEN Round(0) ELSE Round(p[3]),
                        r, now),
              {"gpsLogs"}, <<>>, "addGPSLog")
  /\ UNCHANGED <<lastResult, calls, line, submitted, threw,
                 updates, flushed, settingsVars, sensorsVars>>

\* SensorsScreen capturePhoto, once the picture has been taken
CapturePhoto ==
  /\ Ready
  /\ \E r \in RandomDraws :
       Commit(addPhotoLog(Store,
                          <<"f", "i", "l", "e", ":", "/", "/", "/", "p", "1", ".", "j", "p", "g">>,
                          r, now),
              {"photoLogs"}, <<>>, "addPhotoLog")
  /\ UNCHANGED <<lastResult, calls, line, submitted, threw,
                 updates, flushed, settingsVars, sensorsVars>>

\* SettingsScreen saveEmail: setEmailAddress(emailInput.trim()), which sets
\* the state and calls AsyncStorage.setItem("emailAddress", email) itself
SaveEmail ==
  /\ Ready
  \* the texts typed into the e-mail field: " a@b.c " and ""
  /\ \E txt \in {<<" ", "a", "@", "b", ".", "c", " ">>, <<>>} :
       Commit(setEmailAddressState(Store, Trim(txt)), {"emailAddress"}, <<"emailAddress">>,
              "setEmailAddress")
  /\ UNCHANGED <<lastResult, calls, line, submitted, threw,
                 updates, flushed, settingsVars, sensorsVars>>

\* syncEmail marking the queued items as sent once the mail is handed over
SyncEmail_MarksSent ==
  /\ Ready
  /\ lastOp' = IF emailAddress = <<>> THEN "syncEmailNoAddress" ELSE "syncEmail"
  /\ issued' = {}
  /\ budget' = budget - 1
  /\ emailQueue' = [i \in 1..Len(emailQueue) |-> [emailQueue[i] EXCEPT !.sent = TRUE]]
  /\ UNCHANGED <<features, gpsLogs, photoLogs, commandLogs, emailAddress>>
  /\ UNCHANGED <<loaded, storage, pending, now, failures, lastResult, calls, assigned,
                 line, submitted, threw,
                 updates, flushed, settingsVars, sensorsVars>>

\* SettingsScreen syncEmail (SYNC NOW): with no address an alert and nothing
\* else; otherwise the report is handed to the mail application through a
\* mailto: link.  The store is only read.
SyncEmail ==
  /\ Ready
  /\ lastOp' = IF emailAddress = <<>> THEN "syncEmailNoAddress" ELSE "syncEmail"
  /\ issued' = {}
  /\ budget' = budget - 1
  /\ UnchangedStore
  /\ UNCHANGED <<loaded, storage, pending, now, failures, lastResult, calls, assigned,
                 line, submitted, threw,
                 updates, flushed, settingsVars, sensorsVars>>

\* Settings: Clear Command Logs, confirmed
ClearCommandLogs ==
  /\ Ready
  /\ Commit(clearCommandLogs(Store), {"commandLogs"}, <<>>, "clearCommandLogs")
  /\ UNCHANGED <<lastResult, calls, line, submitted, threw,
                 updates, flushed, settingsVars, sensorsVars>>

\* Settings: Clear GPS Logs, confirmed
ClearGPSLogs ==
  /\ Ready
  /\ Commit(clearGPSLogs(Store), {"gpsLogs"}, <<>>, "clearGPSLogs")
  /\ UNCHANGED <<lastResult, calls, line, submitted, threw,
                 updates, flushed, settingsVars, sensorsVars>>

\* the lines typed into the command field
CommandInputs ==
  <<
     \* "help"
     <<"h", "e", "l", "p">>,
     \* "list"
     <<"l", "i", "s", "t">>,
     \* "enable f006"
     <<"e", "n", "a", "b", "l", "e", " ", "f", "0", "0", "6">>,
     \* "disable GPS tracking"
     <<"d", "i", "s", "a", "b", "l", "e", " ", "G", "P", "S", " ", "t", "r",
         "a", "c", "k", "i", "n", "g">>,
     \* "add Radar | Sweep"
     <<"a", "d", "d", " ", "R", "a", "d", "a", "r", " ", "|", " ", "S", "w",
         "e", "e", "p">>,
     \* "remove f010"
     <<"r", "e", "m", "o", "v", "e", " ", "f", "0", "1", "0">>,
     \* "clear-logs"
     <<"c", "l", "e", "a", "r", "-", "l", "o", "g", "s">>,
     \* "clear-gps"
     <<"c", "l", "e", "a", "r", "-", "g", "p", "s">>,
     \* "sync-email"
     <<"s", "y", "n", "c", "-", "e", "m", "a", "i", "l">>,
     \* "nope"
     <<"n", "o", "p", "e">>,
     \* "enable"
     <<"e", "n", "a", "b", "l", "e">>,
     \* "  "
     <<" ", " ">>
  >>

\* runCommand recording every entry with the type "info"
RunCommandWith_InfoType(trimmed, result, r1, r2) ==
  LET s1 == ApplyCalls(Store, result.calls, r1, now)
      s2 == addCommandLog(s1, trimmed, result.message, <<"i", "n", "f", "o">>, r2, now)
  IN  /\ Commit(s2, {CallKey(result.calls[j]) : j \in 1..Len(result.calls)}
                     \cup {"commandLogs"},
                <<>>, "runCommand")
      /\ lastResult' = [success |-> result.success, message |-> result.message]
      /\ calls' = result.calls
      /\ line' = trimmed

\* runCommand recording the line before the store actions take effect
RunCommandWith_LogsFirst(trimmed, result, r1, r2) ==
  LET s1 == addCommandLog(Store, trimmed, result.message,
                          IF result.success THEN SuccessType ELSE ErrorType, r2, now)
      s2 == ApplyCalls(s1, result.calls, r1, now)
  IN  /\ Commit(s2, {CallKey(result.calls[j]) : j \in 1..Len(result.calls)}
                     \cup {"commandLogs"},
                <<>>, "runCommand")
      /\ lastResult' = [success |-> result.success, message |-> result.message]
      /\ calls' = result.calls
      /\ line' = trimmed

\* runCommand from processCommand's result on: the store actions it called
\* take effect, then addCommandLog records the line and the result
RunCommandWith(trimmed, result, r1, r2) ==
  LET s1 == ApplyCalls(Store, result.calls, r1, now)
      s2 == addCommandLog(s1, trimmed, result.message,
                          IF result.success THEN SuccessType ELSE ErrorType, r2, now)
  IN  /\ Commit(s2, {CallKey(result.calls[j]) : j \in 1..Len(result.calls)}
                     \cup {"commandLogs"},
                <<>>, "runCommand")
      /\ lastResult' = [success |-> result.success, message |-> result.message]
      /\ calls' = result.calls
      /\ line' = trimmed

\* CommandScreen runCommand with one of the texts inputs in the command
\* field: it returns at once when the trimmed text is empty; otherwise
\* processCommand runs on the rendered features and address, then
\* addCommandLog records the trimmed text and the result.
Submit(inputs) ==
  /\ Ready
  /\ \E i \in 1..Len(inputs) :
       LET trimmed == Trim(inputs[i])
           result  == processCommand(trimmed, features, emailAddress, now)
       IN  /\ submitted' = inputs[i]
           /\ UNCHANGED <<threw, updates, flushed, settingsVars, sensorsVars>>
           /\ IF trimmed = <<>>
              THEN /\ lastOp' = "runCommandBlank"
                   /\ issued' = {}
                   /\ budget' = budget - 1
                   /\ UnchangedStore
                   /\ UNCHANGED <<loaded, storage, pending, now, failures, lastResult,
                                  calls, assigned, line>>
              ELSE \E r1 \in RandomDraws, r2 \in RandomDraws :
                     RunCommandWith(trimmed, result, r1, r2)

RunCommand == Submit(CommandInputs)

----------------------------------------------------------------------------
(* The system *)

InitWith(scenarios, handlers) ==
  /\ features = InitialStore.features
  /\ gpsLogs = InitialStore.gpsLogs
  /\ photoLogs = InitialStore.photoLogs
  /\ commandLogs = InitialStore.commandLogs
  /\ emailQueue = InitialStore.emailQueue
  /\ emailAddress = InitialStore.emailAddress
  /\ loaded = FALSE
  /\ \E i \in 1..Len(scenarios) : storage = scenarios[i]
  /\ pending = <<>>
  /\ now = SessionStart
  /\ lastOp = "mount"
  /\ issued = {}
  /\ failures = 0
  /\ lastResult = [success |-> FALSE, message |-> <<>>]
  /\ calls = <<>>
  /\ budget = handlers
  /\ assigned = <<>>
  /\ line = <<>>
  /\ submitted = <<>>
  /\ threw = "none"
  /\ updates = <<>> /\ flushed = 0
  /\ tapCount = 0 /\ tapTimer = 0 /\ showAdmin = FALSE /\ lastTap = 0
  /\ tracking = FALSE /\ trackingInterval = 0 /\ timers = {}
  /\ mounted = TRUE /\ granted = FALSE

Init == InitWith(StoredScenarios, MaxEvents)

Next ==
  \/ Load
  \/ WriteComplete
  \/ WriteFail
  \/ Tick
  \/ ToggleFeature
  \/ RemoveFeature
  \/ AddNewFeature
  \/ LogGPS
  \/ CapturePhoto
  \/ SaveEmail
  \/ SyncEmail
  \/ ClearCommandLogs
  \/ ClearGPSLogs
  \/ RunCommand

Spec == Init /\ [][Next]_vars

\* The six getItem promises of the load effect settle, so the effect runs on.
SpecLive == Init /\ [][Next]_vars /\ WF_vars(Load)

\* the system started on logs stored one below their caps and at their caps,
\* with the handlers that append to and clear the capped logs
SpecCap ==
  /\ InitWith(<< ValidStorage(GPS_CAP - 1, PHOTO_CAP - 1, COMMAND_CAP - 1),
                 ValidStorage(GPS_CAP, PHOTO_CAP, COMMAND_CAP) >>,
              CapEvents)
  /\ [][Load \/ WriteComplete \/ LogGPS \/ CapturePhoto \/ ClearCommandLogs
          \/ ClearGPSLogs \/ RunCommand]_vars

\* feature management after a first start: the handlers that add, remove
\* and toggle features
SpecFeatures ==
  /\ InitWith(<<FreshStorage>>, FeatureEvents)
  /\ [][Load \/ WriteComplete \/ Tick \/ ToggleFeature \/ RemoveFeature
          \/ AddNewFeature]_vars

----------------------------------------------------------------------------
(* The interpreter alone: processCommand applied to lines and snapshots *)

\* the lines handed to processCommand
InterpreterInputs ==
  <<
     \* "help"
     <<"h", "e", "l", "p">>,
     \* "list"
     <<"l", "i", "s", "t">>,
     \* "status"
     <<"s", "t", "a", "t", "u", "s">>,
     \* "version"
     <<"v", "e", "r", "s", "i", "o", "n">>,
     \* "enable f006"
     <<"e", "n", "a", "b", "l", "e", " ", "f", "0", "0", "6">>,
     \* "enable f001"
     <<"e", "n", "a", "b", "l", "e", " ", "f", "0", "0", "1">>,
     \* "enable auto gps log"
     <<"e", "n", "a", "b", "l", "e", " ", "a", "u", "t", "o", " ", "g", "p",
         "s", " ", "l", "o", "g">>,
     \* "enable zz"
     <<"e", "n", "a", "b", "l", "e", " ", "z", "z">>,
     \* "enable"
     <<"e", "n", "a", "b", "l", "e">>,
     \* "disable f001"
     <<"d", "i", "s", "a", "b", "l", "e", " ", "f", "0", "0", "1">>,
     \* "disable f006"
     <<"d", "i", "s", "a", "b", "l", "e", " ", "f", "0", "0", "6">>,
     \* "disable Dark Mode"
     <<"d", "i", "s", "a", "b", "l", "e", " ", "D", "a", "r", "k", " ", "M",
         "o", "d", "e">>,
     \* "add Radar | Sweep | Tools"
     <<"a", "d", "d", " ", "R", "a", "d", "a", "r", " ", "|", " ", "S", "w",
         "e", "e", "p", " ", "|", " ", "T", "o", "o", "l", "s">>,
     \* "add Radar | Sweep"
     <<"a", "d", "d", " ", "R", "a", "d", "a", "r", " ", "|", " ", "S", "w",
         "e", "e", "p">>,
     \* "add Radar"
     <<"a", "d", "d", " ", "R", "a", "d", "a", "r">>,
     \* "add | Sweep"
     <<"a", "d", "d", " ", "|", " ", "S", "w", "e", "e", "p">>,
     \* "add Radar | Sweep |"
     <<"a", "d", "d", " ", "R", "a", "d", "a", "r", " ", "|", " ", "S", "w",
         "e", "e", "p", " ", "|">>,
     \* "remove f010"
     <<"r", "e", "m", "o", "v", "e", " ", "f", "0", "1", "0">>,
     \* "remove zz"
     <<"r", "e", "m", "o", "v", "e", " ", "z", "z">>,
     \* "remove"
     <<"r", "e", "m", "o", "v", "e">>,
     \* "clear-logs"
     <<"c", "l", "e", "a", "r", "-", "l", "o", "g", "s">>,
     \* "clear-gps"
     <<"c", "l", "e", "a", "r", "-", "g", "p", "s">>,
     \* "sync-email"
     <<"s", "y", "n", "c", "-", "e", "m", "a", "i", "l">>,
     \* "nope"
     <<"n", "o", "p", "e">>,
     \* ""
     <<>>,
     \* "  "
     <<" ", " ">>,
     \* "  HELP  "
     <<" ", " ", "H", "E", "L", "P", " ", " ">>,
     \* "ENABLE \t f006"
     <<"E", "N", "A", "B", "L", "E", " ", "\t", " ", "f", "0", "0", "6">>,
     \* "clear-logs now"
     <<"c", "l", "e", "a", "r", "-", "l", "o", "g", "s", " ", "n", "o", "w">>,
     \* "add"
     <<"a", "d", "d">>,
     \* "add Radar |"
     <<"a", "d", "d", " ", "R", "a", "d", "a", "r", " ", "|">>,
     \* "remove Radar"
     <<"r", "e", "m", "o", "v", "e", " ", "R", "a", "d", "a", "r">>,
     \* "enable xrs"
     <<"e", "n", "a", "b", "l", "e", " ", "x", "r", "s">>,
     \* "disable xrs"
     <<"d", "i", "s", "a", "b", "l", "e", " ", "x", "r", "s">>,
     \* "enable radar"
     <<"e", "n", "a", "b", "l", "e", " ", "r", "a", "d", "a", "r">>,
     \* "list all"
     <<"l", "i", "s", "t", " ", "a", "l", "l">>,
     \* "status now"
     <<"s", "t", "a", "t", "u", "s", " ", "n", "o", "w">>,
     \* "version 2"
     <<"v", "e", "r", "s", "i", "o", "n", " ", "2">>,
     \* "help me"
     <<"h", "e", "l", "p", " ", "m", "e">>,
     \* "clear-gps all"
     <<"c", "l", "e", "a", "r", "-", "g", "p", "s", " ", "a", "l", "l">>,
     \* "Nope now"
     <<"N", "o", "p", "e", " ", "n", "o", "w">>,
     \* "\tAdd  Radar |\tSweep\n"
     <<"\t", "A", "d", "d", " ", " ", "R", "a", "d", "a", "r", " ", "|",
         "\t", "S", "w", "e", "e", "p", "\n">>,
     \* "Disable  Dark   Mode "
     <<"D", "i", "s", "a", "b", "l", "e", " ", " ", "D", "a", "r", "k", " ",
         " ", " ", "M", "o", "d", "e", " ">>,
     \* " Sync-Email"
     <<" ", "S", "y", "n", "c", "-", "E", "m", "a", "i", "l">>,
     \* " NOPE\t"
     <<" ", "N", "O", "P", "E", "\t">>
  >>

\* the feature lists handed to processCommand
InterpreterFeatures ==
  << DEFAULT_FEATURES,
     <<>>,
     Append(toggleFeature(InitialStore, <<"f", "0", "0", "6">>).features,
            Feature(uid(<<"x">>, SessionStart), <<"R", "a", "d", "a", "r">>,
                    <<"S", "w", "e", "e", "p">>, FALSE, CustomText,
                    ToISOString(SessionStart))),
     \* "add xrs | Sweep" and "add Radar | Sweep" run in one millisecond, the
     \* second feature drawing the id that is the name of the first
     addFeature(addFeature(InitialStore, <<"x", "r", "s">>, <<"S", "w", "e", "e", "p">>,
                           CustomText, <<"k", "3">>, SessionStart),
                <<"R", "a", "d", "a", "r">>, <<"S", "w", "e", "e", "p">>, CustomText,
                <<"x">>, SessionStart).features >>

\* the provider loaded and at rest, with handlers runs of runCommand to come
InitInterpreter(handlers, logs) ==
  /\ \E i \in 1..Len(InterpreterFeatures) : features = InterpreterFeatures[i]
  /\ gpsLogs = <<>>
  /\ photoLogs = <<>>
  /\ commandLogs = logs
  /\ emailQueue = <<>>
  /\ emailAddress \in {<<>>, PrevEmail}
  /\ loaded = TRUE
  /\ storage = [k \in Keys |-> SavedText(k, Store)]
  /\ pending = <<>>
  /\ now = SessionStart
  /\ lastOp = "mount"
  /\ issued = {}
  /\ failures = 0
  /\ lastResult = [success |-> FALSE, message |-> <<>>]
  /\ calls = <<>>
  /\ budget = handlers
  /\ assigned = [i \in 1..Len(features) |-> features[i].id]
  /\ line = <<>>
  /\ submitted = <<>>
  /\ threw = "none"
  /\ updates = <<>> /\ flushed = 0
  /\ tapCount = 0 /\ tapTimer = 0 /\ showAdmin = FALSE /\ lastTap = 0
  /\ tracking = FALSE /\ trackingInterval = 0 /\ timers = {}
  /\ mounted = TRUE /\ granted = FALSE

\* processCommand(input, features, { ..., emailAddress })
Interpret ==
  \E i \in 1..Len(InterpreterInputs) :
    LET result == processCommand(InterpreterInputs[i], features, emailAddress, now)
    IN  /\ line' = InterpreterInputs[i]
        /\ lastResult' = [success |-> result.success, message |-> result.message]
        /\ calls' = result.calls
        /\ lastOp' = "processCommand"
        /\ UnchangedStore
        /\ UNCHANGED <<loaded, storage, pending, now, issued, failures, budget, assigned,
                       submitted, threw,
                       updates, flushed, settingsVars, sensorsVars>>

SpecCmd == InitInterpreter(0, <<>>) /\ [][Interpret]_vars

----------------------------------------------------------------------------
(* The command screen alone: runCommand on the same lines and snapshots *)

InitRun == InitInterpreter(1, PrevCommandLogs(1))

RunLine == Submit(InterpreterInputs)

SpecRun == InitRun /\ [][RunLine \/ WriteComplete]_vars

----------------------------------------------------------------------------
(* The feature operations of the store alone: a consumer of the context   *)
(* calls toggleFeature, addFeature or removeFeature with an id that is or *)
(* is not in the list, with names that are or are not empty.  Each is one *)
(* setFeatures call with a functional update; none of them throws.        *)

StoreCall ==
  /\ Ready
  /\ \E c \in {Call(fn, id, <<>>, <<>>) :
                  fn \in {"toggleFeature", "removeFeature"},
                  id \in {<<"f", "0", "0", "1">>, <<"f", "0", "0", "6">>, <<"z", "z">>}}
             \cup {Call("addFeature", name, desc, CustomText) :
                     name \in {<<"R", "a", "d", "a", "r">>, <<>>, <<" ">>},
                     desc \in {<<"S", "w", "e", "e", "p">>, <<>>}} :
       \E r \in RandomDraws :
         /\ Commit(ApplyCall(Store, c, r, now), {CallKey(c)}, <<>>, c.fn)
         /\ calls' = <<c>>
  /\ UNCHANGED <<lastResult, line, submitted, threw,
                 updates, flushed, settingsVars, sensorsVars>>

SpecStore == InitRun /\ [][StoreCall \/ WriteComplete]_vars

----------------------------------------------------------------------------
(* Properties *)

\* C1: in every reachable state gpsLogs has at most 200 entries, photoLogs
\* at most 100 and commandLogs at most 500.
C1_CapsHold ==
  /\ Len(gpsLogs) <= GPS_CAP
  /\ Len(photoLogs) <= PHOTO_CAP
  /\ Len(commandLogs) <= COMMAND_CAP

\* a command was recorded while commandLogs was full: its oldest entry, of
\* time 0, is gone and the entry of time 1 is now last
C1_Witness ==
  /\ lastOp = "runCommand"
  /\ Len(commandLogs) = COMMAND_CAP
  /\ commandLogs[COMMAND_CAP].timestamp = ToISOString(1)
  /\ commandLogs[1].command = line

\* C2: when gpsLogs holds 200 entries, logging one more sample leaves
\* exactly 200: the new sample first, behind it the previous entries in
\* their order, all but the one that was last.
C2_FullGpsLogDropsOldest ==
  [][(lastOp' = "addGPSLog" /\ budget' < budget /\ Len(gpsLogs) = GPS_CAP)
       => /\ Len(gpsLogs') = GPS_CAP
          /\ Tail(gpsLogs') = SubSeq(gpsLogs, 1, GPS_CAP - 1)
          /\ gpsLogs'[1].timestamp = ToISOString(now)
          /\ \E p \in Samples, r \in RandomDraws :
               /\ gpsLogs'[1].id = uid(r, now)
               /\ gpsLogs'[1].lat = p[1]
               /\ gpsLogs'[1].lng = p[2]]_vars

\* a sample was logged onto the full list stored by the earlier session:
\* the new sample is first, the stored entry of time 1 is last
C2_Witness ==
  /\ lastOp = "addGPSLog"
  /\ Len(gpsLogs) = GPS_CAP
  /\ gpsLogs[1].timestamp = ToISOString(SessionStart)
  /\ gpsLogs[GPS_CAP].timestamp = ToISOString(1)

\* C3: the id given to a newly added feature differs from the id of every
\* feature in the list and from every id given earlier, also to features
\* since removed; the ids in the list are pairwise distinct.
C3_FeatureIdsNeverReused ==
  /\ \A i, j \in 1..Len(assigned) : i # j => assigned[i] # assigned[j]
  /\ \A i, j \in 1..Len(features) : i # j => features[i].id # features[j].id

\* the texts stored under a key that load can take: a present address, or
\* present text that JSON.parse accepts
C4_Valid(k) ==
  Truthy(storage[k]) /\ (k = "emailAddress" \/ ~ParseThrows(storage[k]))

\* C4: load handles each of the six keys on its own: a missing or corrupt
\* key yields that collection's default, and every key whose stored text is
\* valid is loaded with its stored value.  Stated of the state the load
\* effect leaves, before any of its writes has been served.
C4_KeysLoadIndependently ==
  (lastOp = "load" /\ Len(pending) = Len(ParseOrder) /\ failures = 0)
    => \A k \in Keys :
         Store[k] = IF ~C4_Valid(k) THEN InitialStore[k]
                    ELSE IF k = "emailAddress" THEN storage[k].body
                    ELSE JSONParse(k, storage[k])

\* C6: a store mutation issues a write for the key of the collection it
\* changed and for no other key; a command issues writes for commandLogs
\* and the keys of the store actions it called.
C6_WritesOnlyChangedKey ==
  /\ lastOp \in {"toggleFeature", "addFeature", "removeFeature"} => issued = {"features"}
  /\ lastOp \in {"addGPSLog", "clearGPSLogs"} => issued = {"gpsLogs"}
  /\ lastOp = "addPhotoLog" => issued = {"photoLogs"}
  /\ lastOp = "clearCommandLogs" => issued = {"commandLogs"}
  /\ lastOp = "setEmailAddress" => issued = {"emailAddress"}
  /\ lastOp = "runCommand"
       => issued = {"commandLogs"} \cup {CallKey(calls[j]) : j \in 1..Len(calls)}

\* a feature was toggled, and the command "clear-gps" was run
C6_Witness ==
  \/ lastOp = "toggleFeature" /\ issued = {"features"}
  \/ lastOp = "runCommand" /\ issued = {"commandLogs", "gpsLogs"}

\* C7: once load has completed and every issued write has completed with
\* none failing, the stored text of each of the six keys is the
\* serialization of the collection in memory (a key never written counts
\* as mirroring the default it loads as).
C7_StorageMirrorsStore ==
  (loaded /\ pending = <<>> /\ failures = 0)
    => \A k \in Keys :
         \/ TextEq(storage[k], SavedText(k, Store))
         \/ TextEq(storage[k], Null) /\ Store[k] = InitialStore[k]

\* C8: when a write fails the store keeps the mutated value and the result
\* the command returned stands.
C8_FailedWriteLeavesStore ==
  [][failures' > failures
       => (Store' = Store /\ lastResult' = lastResult /\ calls' = calls)]_vars

\* the write of commandLogs made by a command failed: the store holds the
\* entry of the command, the stored text does not
C8_Witness ==
  /\ failures = 1
  /\ pending = <<>>
  /\ lastOp = "runCommand"
  /\ Len(commandLogs) > 0
  /\ commandLogs[1].command = line
  /\ ~TextEq(storage["commandLogs"], SavedText("commandLogs", Store))

\* C9: saving all six keys of the store and loading them into a fresh
\* store yields a store equal to the one saved, field for field.
C9_SaveThenLoadIsIdentity ==
  LoadStore([k \in Keys |-> SavedText(k, Store)], FALSE) = Store

\* the store with no feature and no address, after a command was recorded
C9_Witness ==
  /\ loaded
  /\ features = <<>>
  /\ emailAddress = <<>>
  /\ Len(commandLogs) > 0

\* C10: one invocation of processCommand calls at most one store action,
\* at most once.
C10_AtMostOneStoreCall ==
  /\ Len(calls) <= 1
  /\ \A i \in 1..Len(calls) :
       calls[i].fn \in {"toggleFeature", "addFeature", "removeFeature",
                        "clearCommandLogs", "clearGPSLogs", "addEmailQueue"}

\* processCommand ran "enable f006" and called toggleFeature once
C10_Witness ==
  /\ lastOp = "processCommand"
  /\ Len(calls) = 1
  /\ calls[1].fn = "toggleFeature"
  /\ lastResult.success

----------------------------------------------------------------------------
(* Properties of the command interpreter and the command screen *)

\* the tokens, the verb, the arguments and the trimmed |-segments of a line
PartsOf(l) == SplitWhitespace(Trim(l))
VerbOf(l) == ToLowerCase(PartsOf(l)[1])
ArgsOf(l) == Tail(PartsOf(l))
SegmentsOf(l) ==
  LET raw == Split(Join(ArgsOf(l), <<" ">>), "|")
  IN  [i \in 1..Len(raw) |-> Trim(raw[i])]

VerbEnable == <<"e", "n", "a", "b", "l", "e">>
VerbDisable == <<"d", "i", "s", "a", "b", "l", "e">>
VerbAdd == <<"a", "d", "d">>
VerbRemove == <<"r", "e", "m", "o", "v", "e">>
VerbSyncEmail == <<"s", "y", "n", "c", "-", "e", "m", "a", "i", "l">>
Verbs ==
  { <<"h", "e", "l", "p">>, <<"l", "i", "s", "t">>, VerbEnable, VerbDisable, VerbAdd, VerbRemove,
    <<"s", "t", "a", "t", "u", "s">>,
    <<"c", "l", "e", "a", "r", "-", "l", "o", "g", "s">>,
    <<"c", "l", "e", "a", "r", "-", "g", "p", "s">>, VerbSyncEmail,
    <<"v", "e", "r", "s", "i", "o", "n">> }

\* a line that names no verb, or a verb without the argument it needs, or
\* an add without a name and a description
Malformed(l) ==
  \/ VerbOf(l) \notin Verbs
  \/ VerbOf(l) \in {VerbEnable, VerbDisable, VerbRemove} /\ ArgsOf(l) = <<>>
  \/ /\ VerbOf(l) = VerbAdd
     /\ \/ Len(SegmentsOf(l)) < 2
        \/ SegmentsOf(l)[1] = <<>>
        \/ SegmentsOf(l)[2] = <<>>

\* the step is a run of runCommand that reached processCommand
RanCommand == lastOp' = "runCommand" /\ budget' < budget

\* the features whose id is the argument, or whose name is the joined
\* arguments up to case
MatchesOf(l) ==
  {i \in 1..Len(features) :
     \/ features[i].id = ArgsOf(l)[1]
     \/ ToLowerCase(features[i].name) = ToLowerCase(Join(ArgsOf(l), <<" ">>))}

\* C11: processCommand returns a result with a boolean flag and a message
\* for every line and feature list, and success = false for every
\* malformed line (empty, unknown verb, missing argument, bad add syntax).
C11_InterpreterTotal ==
  lastOp = "processCommand"
    => /\ lastResult.success \in BOOLEAN
       /\ Len(lastResult.message) > 0
       /\ Malformed(line) => ~lastResult.success

\* processCommand was given an add without a description and refused it
C11_Witness ==
  /\ lastOp = "processCommand"
  /\ VerbOf(line) = VerbAdd
  /\ Len(SegmentsOf(line)) = 1
  /\ Malformed(line)
  /\ ~lastResult.success
  /\ lastResult.message = UsageAddText

\* C12: when a command returns success = false, features, gpsLogs,
\* photoLogs, emailQueue and emailAddress are unchanged; the only change is
\* the entry the caller puts in front of the command log.
C12_FailureLeavesStore ==
  [][(RanCommand /\ ~lastResult'.success)
       => /\ features' = features
          /\ gpsLogs' = gpsLogs
          /\ photoLogs' = photoLogs
          /\ emailQueue' = emailQueue
          /\ emailAddress' = emailAddress
          /\ Tail(commandLogs') = commandLogs]_vars

\* sync-email was run with no address configured: it failed, nothing was
\* queued and the log grew by its entry
C12_Witness ==
  /\ lastOp = "runCommand"
  /\ VerbOf(line) = VerbSyncEmail
  /\ ~lastResult.success
  /\ emailAddress = <<>>
  /\ emailQueue = <<>>
  /\ Len(commandLogs) = 2
  /\ commandLogs[1].type = ErrorType

\* the step is a run of runCommand, whatever the text in the field
Submitted == lastOp' \in {"runCommand", "runCommandBlank"} /\ budget' < budget

\* the entry in front of the log is of the kind the result flag gives and
\* holds the text command and the result message, the earlier entries
\* following it (none of them after clear-logs)
LoggedAs(command) ==
  /\ Len(commandLogs') > 0
  /\ commandLogs'[1].type = (IF lastResult'.success THEN SuccessType ELSE ErrorType)
  /\ commandLogs'[1].command = command
  /\ commandLogs'[1].result = lastResult'.message
  /\ Tail(commandLogs') =
       IF \E j \in 1..Len(calls') : calls'[j].fn = "clearCommandLogs"
       THEN <<>> ELSE commandLogs

C14_Enable ==
  [][(RanCommand /\ VerbOf(line') = VerbEnable /\ ArgsOf(line') # <<>>)
       => IF MatchesOf(line') = {}
          THEN ~lastResult'.success /\ features' = features
          ELSE LET i == CHOOSE k \in MatchesOf(line') : \A j \in MatchesOf(line') : k <= j
               IN  /\ lastResult'.success
                   /\ Len(features') = Len(features)
                   /\ features'[i].id = features[i].id
                   /\ features'[i].enabled
                   /\ features[i].enabled => (calls' = <<>> /\ features' = features)]_vars

\* "enable radar" found the disabled feature named Radar: it is enabled
C14_Witness ==
  /\ lastOp = "runCommand"
  /\ VerbOf(line) = VerbEnable
  /\ lastResult.success
  /\ Len(calls) = 1
  /\ \E i \in 1..Len(features) :
       /\ ToLowerCase(features[i].name) = ArgsOf(line)[1]
       /\ features[i].id # ArgsOf(line)[1]
       /\ features[i].enabled

\* C15: disable with an argument mirrors enable: the feature found is
\* disabled afterwards, one disabled already yields success with no store
\* action, no match fails; no other feature's enabled flag changes.
C15_Disable ==
  [][(RanCommand /\ VerbOf(line') = VerbDisable /\ ArgsOf(line') # <<>>)
       => IF MatchesOf(line') = {}
          THEN ~lastResult'.success /\ features' = features
          ELSE LET i == CHOOSE k \in MatchesOf(line') : \A j \in MatchesOf(line') : k <= j
               IN  /\ lastResult'.success
                   /\ Len(features') = Len(features)
                   /\ features'[i].id = features[i].id
                   /\ ~features'[i].enabled
                   /\ ~features[i].enabled => (calls' = <<>> /\ features' = features)
                   /\ \A j \in 1..Len(features) : j # i => features'[j] = features[j]]_vars

\* "disable Dark Mode" found the enabled feature of that name: it is disabled
C15_Witness ==
  /\ lastOp = "runCommand"
  /\ VerbOf(line) = VerbDisable
  /\ Len(ArgsOf(line)) = 2
  /\ lastResult.success
  /\ Len(calls) = 1
  /\ \E i \in 1..Len(features) :
       /\ features[i].name = Join(ArgsOf(line), <<" ">>)
       /\ ~features[i].enabled

\* C16: in the lookup of enable and disable a feature whose id is the
\* argument is the one acted on, whatever its place in the list: it has
\* the requested flag afterwards and every other feature is unchanged.
C16_IdTakesPrecedence ==
  [][(/\ RanCommand
      /\ VerbOf(line') \in {VerbEnable, VerbDisable}
      /\ ArgsOf(line') # <<>>
      /\ \E i \in 1..Len(features) : features[i].id = ArgsOf(line')[1])
       => /\ Len(features') = Len(features)
          /\ \A j \in 1..Len(features) :
               IF features[j].id = ArgsOf(line')[1]
               THEN features'[j].enabled = (VerbOf(line') = VerbEnable)
               ELSE features'[j] = features[j]]_vars

\* C17: add with a name and a description that are not empty appends
\* exactly one feature, disabled, whose name, description and category are
\* the trimmed segments; with no third segment the category is "Custom".
C17_AddAppends ==
  [][(/\ RanCommand
      /\ VerbOf(line') = VerbAdd
      /\ Len(SegmentsOf(line')) >= 2
      /\ SegmentsOf(line')[1] # <<>>
      /\ SegmentsOf(line')[2] # <<>>)
       => /\ lastResult'.success
          /\ Len(features') = Len(features) + 1
          /\ SubSeq(features', 1, Len(features)) = features
          /\ features'[Len(features')].name = SegmentsOf(line')[1]
          /\ features'[Len(features')].description = SegmentsOf(line')[2]
          /\ ~features'[Len(features')].enabled
          /\ Len(SegmentsOf(line')) = 2
               => features'[Len(features')].category = CustomText
          /\ (Len(SegmentsOf(line')) >= 3 /\ SegmentsOf(line')[3] # <<>>)
               => features'[Len(features')].category = SegmentsOf(line')[3]]_vars

\* "add Radar | Sweep | Tools" appended the feature Radar of category Tools
C17_Witness ==
  /\ lastOp = "runCommand"
  /\ VerbOf(line) = VerbAdd
  /\ Len(SegmentsOf(line)) = 3
  /\ lastResult.success
  /\ Len(features) > 0
  /\ features[Len(features)].name = SegmentsOf(line)[1]
  /\ features[Len(features)].category = <<"T", "o", "o", "l", "s">>
  /\ ~features[Len(features)].enabled

\* C18: add whose third segment is present and empty after trimming
\* creates a feature of category "Custom".
C18_EmptyCategoryIsCustom ==
  [][(/\ RanCommand
      /\ VerbOf(line') = VerbAdd
      /\ Len(SegmentsOf(line')) >= 3
      /\ SegmentsOf(line')[1] # <<>>
      /\ SegmentsOf(line')[2] # <<>>
      /\ SegmentsOf(line')[3] = <<>>)
       => /\ Len(features') = Len(features) + 1
          /\ features'[Len(features')].category = CustomText]_vars

\* C19: add with fewer than two segments, or with an empty name or an
\* empty description, returns success = false and leaves the features.
C19_BadAddRejected ==
  [][(/\ RanCommand
      /\ VerbOf(line') = VerbAdd
      /\ \/ Len(SegmentsOf(line')) < 2
         \/ SegmentsOf(line')[1] = <<>>
         \/ SegmentsOf(line')[2] = <<>>)
       => (~lastResult'.success /\ features' = features /\ calls' = <<>>)]_vars

\* "add | Sweep", an add with an empty name, was refused
C19_Witness ==
  /\ lastOp = "runCommand"
  /\ VerbOf(line) = VerbAdd
  /\ Len(SegmentsOf(line)) = 2
  /\ SegmentsOf(line)[1] = <<>>
  /\ ~lastResult.success
  /\ lastResult.message = RequiredText

\* C20: remove with an argument: if a feature has the argument as id the
\* command succeeds, no feature has that id afterwards and the others stay
\* in their order; otherwise, also when a feature's name is the argument,
\* the command fails and the features are unchanged.
C20_RemoveByIdOnly ==
  [][(RanCommand /\ VerbOf(line') = VerbRemove /\ ArgsOf(line') # <<>>)
       => IF \E i \in 1..Len(features) : features[i].id = ArgsOf(line')[1]
          THEN /\ lastResult'.success
               /\ features' = SelectSeq(features, LAMBDA f : f.id # ArgsOf(line')[1])
          ELSE ~lastResult'.success /\ features' = features]_vars

\* "remove Radar" was run on a list holding the feature named Radar: it
\* failed and the feature is still there
C20_Witness ==
  /\ lastOp = "runCommand"
  /\ VerbOf(line) = VerbRemove
  /\ ArgsOf(line) # <<>>
  /\ ~lastResult.success
  /\ \E i \in 1..Len(features) : features[i].name = ArgsOf(line)[1]

----------------------------------------------------------------------------
(* Properties of sync-email, the read-only verbs and the rejected lines *)

\* C21: sync-email with an empty configured address fails and leaves the
\* email queue unchanged; with an address it succeeds and the queue is the
\* earlier queue with exactly one item appended at the end, sent = false.
C21_SyncEmailQueuesOne ==
  [][(RanCommand /\ VerbOf(line') = VerbSyncEmail)
       => IF emailAddress = <<>>
          THEN ~lastResult'.success /\ emailQueue' = emailQueue
          ELSE /\ lastResult'.success
               /\ Len(emailQueue') = Len(emailQueue) + 1
               /\ SubSeq(emailQueue', 1, Len(emailQueue)) = emailQueue
               /\ ~emailQueue'[Len(emailQueue')].sent]_vars

\* sync-email ran with an address configured and one item queued before:
\* the earlier item is first and the new unsent one is behind it
C21_Witness ==
  /\ lastOp = "runCommand"
  /\ VerbOf(line) = VerbSyncEmail
  /\ lastResult.success
  /\ emailAddress # <<>>
  /\ Len(emailQueue) = 2
  /\ emailQueue[1] = PrevEmailQueue[1]
  /\ emailQueue[2] # PrevEmailQueue[1]
  /\ ~emailQueue[2].sent

VerbHelp == <<"h", "e", "l", "p">>
VerbList == <<"l", "i", "s", "t">>
VerbStatus == <<"s", "t", "a", "t", "u", "s">>
VerbVersion == <<"v", "e", "r", "s", "i", "o", "n">>
VerbClearLogs == <<"c", "l", "e", "a", "r", "-", "l", "o", "g", "s">>
VerbClearGps == <<"c", "l", "e", "a", "r", "-", "g", "p", "s">>

\* C22: help, list, status, version, clear-logs and clear-gps return
\* success = true for every feature list and address and whatever follows
\* the verb; help, list, status and version call no store action.
C22_ReadOnlyVerbsSucceed ==
  (/\ lastOp = "processCommand"
   /\ VerbOf(line) \in {VerbHelp, VerbList, VerbStatus, VerbVersion,
                        VerbClearLogs, VerbClearGps})
    => /\ lastResult.success
       /\ VerbOf(line) \in {VerbHelp, VerbList, VerbStatus, VerbVersion}
            => calls = <<>>

\* "list all" was given with no feature registered: it succeeded and
\* called nothing
C22_Witness ==
  /\ lastOp = "processCommand"
  /\ VerbOf(line) = VerbList
  /\ ArgsOf(line) # <<>>
  /\ features = <<>>
  /\ lastResult.success
  /\ calls = <<>>

\* the message begins with the text
BeginsWith(message, text) ==
  Len(message) >= Len(text) /\ SubSeq(message, 1, Len(text)) = text

\* C23: an empty or whitespace-only line returns success = false with a
\* message beginning "No command entered"; a line whose first token is none
\* of the eleven verbs returns success = false with a message beginning
\* "Unknown command: '<verb>'", <verb> the lower-cased first token; neither
\* calls a store action.
C23_BlankAndUnknownRejected ==
  lastOp = "processCommand"
    => /\ Trim(line) = <<>>
            => /\ ~lastResult.success
               /\ BeginsWith(lastResult.message,
                             <<"N", "o", " ", "c", "o", "m", "m", "a", "n", "d", " ", "e", "n", "t", "e",
                             "r", "e", "d">>)
               /\ calls = <<>>
       /\ (Trim(line) # <<>> /\ VerbOf(line) \notin Verbs)
            => /\ ~lastResult.success
               /\ BeginsWith(lastResult.message,
                             <<"U", "n", "k", "n", "o", "w", "n", " ", "c", "o", "m", "m", "a", "n", "d",
                             ":", " ", "'">>
                             \o VerbOf(line) \o <<"'">>)
               /\ calls = <<>>

\* "Nope now" was given: the answer names the verb in lower case
C23_Witness ==
  /\ lastOp = "processCommand"
  /\ Trim(line) # <<>>
  /\ VerbOf(line) \notin Verbs
  /\ PartsOf(line)[1] # VerbOf(line)
  /\ ~lastResult.success
  /\ calls = <<>>

\* C24: enable with an argument that is no feature's id or name puts one
\* new entry of kind error at the head of the command log, and the entries
\* that were in the log and still are follow it unchanged, in their order.
C24_FailedEnableLogsError ==
  [][(/\ RanCommand
      /\ VerbOf(line') = VerbEnable
      /\ ArgsOf(line') # <<>>
      /\ MatchesOf(line') = {})
       => /\ Len(commandLogs') = IF Len(commandLogs) < COMMAND_CAP
                                 THEN Len(commandLogs) + 1 ELSE COMMAND_CAP
          /\ commandLogs'[1].type = ErrorType
          /\ commandLogs'[1].command = line'
          /\ \A i \in 1..Len(commandLogs) : commandLogs'[1].id # commandLogs[i].id
          /\ Tail(commandLogs') = SubSeq(commandLogs, 1, Len(commandLogs') - 1)
          /\ features' = features]_vars

\* "enable zz" was run with one entry in the log: the error entry is first
\* and the earlier entry is second
C24_Witness ==
  /\ lastOp = "runCommand"
  /\ VerbOf(line) = VerbEnable
  /\ ArgsOf(line) # <<>>
  /\ MatchesOf(line) = {}
  /\ Len(commandLogs) = 2
  /\ commandLogs[1].type = ErrorType
  /\ commandLogs[2] = PrevCommandLogs(1)[1]

----------------------------------------------------------------------------
(* Properties of the store's feature operations and of the email queue *)

\* C25: for an id in the feature list, toggleFeature(id) applied twice
\* gives the feature its original enabled value back, and neither
\* application changes a feature of another id, the order or the length.
C25_ToggleTwiceRestores ==
  \A i \in 1..Len(features) :
    LET id   == features[i].id
        once == toggleFeature(Store, id).features
        back == toggleFeature(toggleFeature(Store, id), id).features
    IN  /\ back[i].enabled = features[i].enabled
        /\ once[i].enabled = ~features[i].enabled
        /\ Len(once) = Len(features) /\ Len(back) = Len(features)
        /\ \A j \in 1..Len(features) :
             /\ once[j].id = features[j].id /\ back[j].id = features[j].id
             /\ features[j].id # id => once[j] = features[j] /\ back[j] = features[j]
             /\ [once[j] EXCEPT !.enabled = TRUE] = [features[j] EXCEPT !.enabled = TRUE]

\* the same switch was pressed twice on the default list, which is back as
\* it was
C25_Witness ==
  /\ lastOp = "toggleFeature"
  /\ budget = FeatureEvents - 2
  /\ features = DEFAULT_FEATURES

\* the step is a direct call of a store operation by a consumer of the context
Called(fn) == lastOp' = fn /\ budget' < budget /\ Len(calls') = 1 /\ calls'[1].fn = fn

\* C26: toggleFeature(id) fails with a NotFoundError when no feature has
\* that id, instead of completing silently.
C26_ToggleAbsentThrows ==
  [][(/\ Called("toggleFeature")
      /\ \A i \in 1..Len(features) : features[i].id # calls'[1].a1)
       => threw' = "NotFoundError"]_vars

\* C27: addFeature(name, description, category) fails with a
\* ValidationError and adds nothing when the name or the description is
\* empty after trimming.
C27_AddFeatureValidates ==
  [][(/\ Called("addFeature")
      /\ (Trim(calls'[1].a1) = <<>> \/ Trim(calls'[1].a2) = <<>>))
       => (threw' = "ValidationError" /\ features' = features)]_vars

\* C28: addFeature grows the feature list by exactly one: the new feature
\* is last and disabled, and the features there before keep their position
\* and every field.
C28_AddFeatureAppendsOne ==
  [][(lastOp' = "addFeature" /\ budget' < budget)
       => /\ Len(features') = Len(features) + 1
          /\ SubSeq(features', 1, Len(features)) = features
          /\ ~features'[Len(features')].enabled]_vars

\* a feature was added to the default list after f001 had been switched:
\* the ten defaults are where they were, f001 still switched, the new one last
C28_Witness ==
  /\ lastOp = "addFeature"
  /\ Len(features) = Len(DEFAULT_FEATURES) + 1
  /\ \A i \in 1..Len(DEFAULT_FEATURES) : features[i].id = DEFAULT_FEATURES[i].id
  /\ \E i \in 1..Len(DEFAULT_FEATURES) : features[i].enabled # DEFAULT_FEATURES[i].enabled
  /\ features[Len(features)].id \notin DefaultIds
  /\ ~features[Len(features)].enabled

\* C29: removeFeature(id) with an id no feature has leaves the feature list
\* unchanged and does not fail, and removing the same id a second time
\* gives the list the first removal gave.
C29_RemoveIdempotent ==
  [][Called("removeFeature")
       => /\ (\A i \in 1..Len(features) : features[i].id # calls'[1].a1)
               => (features' = features /\ threw' = "none")
          /\ removeFeature(MkStore(features', gpsLogs', photoLogs', commandLogs',
                                   emailQueue', emailAddress'),
                           calls'[1].a1).features = features']_vars

\* removeFeature("zz") was called on a list without that id, which is whole
C29_Witness ==
  /\ lastOp = "removeFeature"
  /\ Len(calls) = 1
  /\ calls[1].a1 = <<"z", "z">>
  /\ Len(features) = Len(DEFAULT_FEATURES) + 1
  /\ threw = "none"

\* C30: the email queue is append-only within a session: no step, the
\* Settings SYNC NOW hand-off included, removes or reorders items or
\* changes a field of one, and every item in the queue has sent = false.
C30_EmailQueueAppendOnly ==
  [][/\ Len(emailQueue') >= Len(emailQueue)
     /\ SubSeq(emailQueue', 1, Len(emailQueue)) = emailQueue
     /\ \A i \in 1..Len(emailQueue') : ~emailQueue'[i].sent]_vars

\* SYNC NOW was pressed with an address configured and one item queued,
\* which is still there, unsent
C30_Witness ==
  /\ lastOp = "syncEmail"
  /\ Len(emailQueue) = 1
  /\ emailQueue = PrevEmailQueue
  /\ ~emailQueue[1].sent

----------------------------------------------------------------------------
(* The state setters in detail.  Every store action hands React an updater *)
(* (setX(prev => ...)); React keeps the updaters in a queue and, when it   *)
(* renders next, applies them in order, each to the state the one before   *)
(* it returned.  Handlers and callbacks that run before that render have   *)
(* read the state rendered last.                                           *)

\* the queued updaters applied in order, each with the id and the time its
\* store action drew when it was called
RECURSIVE ApplyUpdates(_, _)
ApplyUpdates(s, us) ==
  IF us = <<>> THEN s
  ELSE ApplyUpdates(ApplyCall(s, Head(us), Head(us).r, Head(us).t), Tail(us))

\* A caller runs before React has rendered the updates of the callers before
\* it: a switch of the dashboard (toggleFeature), the GPS callback
\* (addGPSLog), the camera callback (addPhotoLog), or runCommand, whose
\* processCommand reads the rendered features and whose addCommandLog
\* follows the store action it called.
Dispatch ==
  /\ loaded
  /\ budget > 1
  /\ \E r \in RandomDraws :
     \E cs \in { <<Call("toggleFeature", <<"f", "0", "0", "1">>, <<>>, <<>>)>>,
                 <<Call("addGPSLog", 23, 90, Round(47))>>,
                 <<Call("addPhotoLog",
                        <<"f", "i", "l", "e", ":", "/", "/", "/", "p", "1", ".", "j", "p", "g">>,
                        <<>>, <<>>)>> }
            \cup { LET result == processCommand(l, features, emailAddress, now)
                   IN  Append(result.calls,
                              Call("addCommandLog", l, result.message,
                                   IF result.success THEN SuccessType ELSE ErrorType))
                   : l \in { <<"d", "i", "s", "a", "b", "l", "e", " ", "f", "0", "0", "1">>,
                             <<"e", "n", "a", "b", "l", "e", " ", "f", "0", "0", "6">> } } :
       updates' = updates \o [j \in 1..Len(cs) |->
                                cs[j] @@ [r |-> r, t |-> now]]
  /\ budget' = budget - 1
  /\ lastOp' = "dispatch"
  /\ issued' = {}
  /\ UnchangedStore
  /\ UNCHANGED <<loaded, storage, pending, now, failures, lastResult, calls, assigned,
                 line, submitted, threw, flushed, settingsVars, sensorsVars>>

\* React rendering with every updater applied to the state of its hook as
\* the handler saw it, the later one overwriting the earlier
Render_Snapshot ==
  /\ flushed < Len(updates)
  /\ LET us == SubSeq(updates, flushed + 1, Len(updates))
     IN  Commit(ApplyUpdates(Store, <<us[Len(us)]>>),
                {CallKey(us[j]) : j \in 1..Len(us)}, <<>>, "render")
  /\ flushed' = Len(updates)
  /\ UNCHANGED <<lastResult, calls, line, submitted, threw, updates, settingsVars,
                 sensorsVars>>

\* React renders: the updaters queued since the last render are applied in
\* order to the latest state, then the save effects of the changed states run
Render ==
  /\ flushed < Len(updates)
  /\ LET us == SubSeq(updates, flushed + 1, Len(updates))
     IN  Commit(ApplyUpdates(Store, us), {CallKey(us[j]) : j \in 1..Len(us)}, <<>>,
                "render")
  /\ flushed' = Len(updates)
  /\ UNCHANGED <<lastResult, calls, line, submitted, threw, updates, settingsVars,
                 sensorsVars>>

\* a first start in which callers run between renders
SpecBatch ==
  /\ InitWith(<<FreshStorage>>, BatchEvents)
  /\ [][Load \/ WriteComplete \/ Dispatch \/ Render]_vars

----------------------------------------------------------------------------
(* The Settings title: seven quick taps show or hide the admin panel.  Time *)
(* passes in steps of TapStep; a timeout that is due runs before the       *)
(* clock moves on and before a tap that comes at or after its due time.    *)

\* the callback of setTimeout(..., SECRET_TIMEOUT) is due
TimerDue == tapTimer # 0 /\ now >= tapTimer

\* handleSecretTap that leaves the count where it is when the panel flips
HandleSecretTap_KeepsCount ==
  /\ Ready
  /\ ~TimerDue
  /\ lastTap' = now
  /\ tapCount' = tapCount + 1
  /\ IF tapCount + 1 >= SECRET_TAPS
     THEN tapTimer' = 0 /\ showAdmin' = ~showAdmin
     ELSE tapTimer' = now + SECRET_TIMEOUT /\ UNCHANGED showAdmin
  /\ budget' = budget - 1
  /\ lastOp' = "handleSecretTap"
  /\ issued' = {}
  /\ UnchangedStore
  /\ UNCHANGED <<loaded, storage, pending, now, failures, lastResult, calls, assigned,
                 line, submitted, threw, updates, flushed, sensorsVars>>

\* handleSecretTap: the count goes up and the pending timeout is cleared;
\* at SECRET_TAPS the count returns to 0 and the panel flips, otherwise a
\* new timeout is set
HandleSecretTap ==
  /\ Ready
  /\ ~TimerDue
  /\ lastTap' = now
  /\ IF tapCount + 1 >= SECRET_TAPS
     THEN tapCount' = 0 /\ tapTimer' = 0 /\ showAdmin' = ~showAdmin
     ELSE /\ tapCount' = tapCount + 1
          /\ tapTimer' = now + SECRET_TIMEOUT
          /\ UNCHANGED showAdmin
  /\ budget' = budget - 1
  /\ lastOp' = "handleSecretTap"
  /\ issued' = {}
  /\ UnchangedStore
  /\ UNCHANGED <<loaded, storage, pending, now, failures, lastResult, calls, assigned,
                 line, submitted, threw, updates, flushed, sensorsVars>>

\* the timeout runs: tapCount.current = 0
TapTimeout ==
  /\ TimerDue
  /\ tapCount' = 0
  /\ tapTimer' = 0
  /\ lastOp' = "tapTimeout"
  /\ UnchangedStore
  /\ UNCHANGED <<loaded, storage, pending, now, issued, failures, lastResult, calls,
                 budget, assigned, line, submitted, threw, updates, flushed,
                 showAdmin, lastTap, sensorsVars>>

\* time passes on the Settings screen
Elapse ==
  /\ loaded
  /\ ~TimerDue
  /\ now < SessionStart + MaxWait * TapStep
  /\ now' = now + TapStep
  /\ UnchangedStore
  /\ UNCHANGED <<loaded, storage, pending, lastOp, issued, failures, lastResult, calls,
                 budget, assigned, line, submitted, threw, updates, flushed,
                 settingsVars, sensorsVars>>

\* the Settings title tapped at any of the instants
SpecSettings ==
  /\ InitInterpreter(SettingsEvents, <<>>)
  /\ [][HandleSecretTap \/ TapTimeout \/ Elapse]_vars

----------------------------------------------------------------------------
(* The Sensors screen: auto-tracking samples the position at once and then *)
(* from a 30-second interval timer.  React renders between two presses, so *)
(* toggleTracking reads the tracking flag set by the press before.         *)

\* toggleTracking: without the permission it asks for it and returns; when
\* tracking it clears the interval; otherwise it sets the flag, calls logGPS
\* and registers the interval
ToggleTracking ==
  /\ Ready
  /\ mounted
  /\ \/ /\ ~granted
        /\ granted' \in BOOLEAN
        /\ Commit(Store, {}, <<>>, "requestLocationPermission")
        /\ UNCHANGED <<tracking, trackingInterval, timers>>
     \/ /\ granted
        /\ tracking
        /\ timers' = timers \ {trackingInterval}
        /\ trackingInterval' = 0
        /\ tracking' = FALSE
        /\ Commit(Store, {}, <<>>, "stopTracking")
        /\ UNCHANGED granted
     \/ /\ granted
        /\ ~tracking
        /\ tracking' = TRUE
        /\ LET handle == CHOOSE n \in 1..(Cardinality(timers) + 1) : n \notin timers
           IN  timers' = timers \cup {handle} /\ trackingInterval' = handle
        /\ \E p \in Samples, r \in RandomDraws :
             Commit(addGPSLog(Store, p[1], p[2], IF p[3] < 0 THEN Round(0) ELSE Round(p[3]),
                              r, now),
                    {"gpsLogs"}, <<>>, "startTracking")
        /\ UNCHANGED granted
  /\ UNCHANGED <<mounted, lastResult, calls, line, submitted, threw, updates, flushed,
                 settingsVars>>

\* a registered interval fires: logGPS
IntervalFires ==
  /\ timers # {}
  /\ LogGPS

\* the screen unmounting without the cleanup of its effect
Unmount_NoCleanup ==
  /\ Ready
  /\ mounted
  /\ mounted' = FALSE
  /\ Commit(Store, {}, <<>>, "unmount")
  /\ UNCHANGED <<timers, tracking, trackingInterval, granted, lastResult, calls, line,
                 submitted, threw, updates, flushed, settingsVars>>

\* the screen unmounts: the cleanup of the effect clears the interval of
\* trackingInterval.current
Unmount ==
  /\ Ready
  /\ mounted
  /\ mounted' = FALSE
  /\ timers' = timers \ {trackingInterval}
  /\ Commit(Store, {}, <<>>, "unmount")
  /\ UNCHANGED <<tracking, trackingInterval, granted, lastResult, calls, line,
                 submitted, threw, updates, flushed, settingsVars>>

\* the screen mounts again with fresh state and refs
Mount ==
  /\ Ready
  /\ ~mounted
  /\ mounted' = TRUE
  /\ tracking' = FALSE
  /\ trackingInterval' = 0
  /\ Commit(Store, {}, <<>>, "mountSensors")
  /\ UNCHANGED <<timers, granted, lastResult, calls, line, submitted, threw, updates,
                 flushed, settingsVars>>

\* the Sensors screen pressed, sampled, unmounted and mounted
SpecSensors ==
  /\ InitInterpreter(SensorEvents, <<>>)
  /\ [][ToggleTracking \/ IntervalFires \/ Unmount \/ Mount \/ WriteComplete]_vars

----------------------------------------------------------------------------
(* Properties of the clear operations, of parsing and of the update queue *)

\* C31: clearGPSLogs leaves gpsLogs empty and clearCommandLogs leaves
\* commandLogs empty, and each leaves every other collection and the email
\* address unchanged.
C31_ClearEmptiesOnlyItsLog ==
  [][/\ (lastOp' = "clearGPSLogs" /\ budget' < budget)
          => /\ gpsLogs' = <<>>
             /\ UNCHANGED <<features, photoLogs, commandLogs, emailQueue, emailAddress>>
     /\ (lastOp' = "clearCommandLogs" /\ budget' < budget)
          => /\ commandLogs' = <<>>
             /\ UNCHANGED <<features, gpsLogs, photoLogs, emailQueue, emailAddress>>]_vars

\* the GPS log was cleared in a session that had loaded one entry of each
\* log: the photo and the command entry are still there
C31_Witness ==
  /\ lastOp = "clearGPSLogs"
  /\ gpsLogs = <<>>
  /\ Len(photoLogs) = 1
  /\ Len(commandLogs) = 1
  /\ Len(emailQueue) = 1
  /\ emailAddress # <<>>

\* pairs of lines that differ only in the case of the first token, in
\* leading or trailing white space, or in the white space between tokens
SameCommand ==
  {
    \* "help" and "  HELP  "
    << <<"h", "e", "l", "p">>,
       <<" ", " ", "H", "E", "L", "P", " ", " ">> >>,
    \* "enable f006" and "ENABLE \t f006"
    << <<"e", "n", "a", "b", "l", "e", " ", "f", "0", "0", "6">>,
       <<"E", "N", "A", "B", "L", "E", " ", "\t", " ", "f", "0", "0", "6">> >>,
    \* "add Radar | Sweep" and "\tAdd  Radar |\tSweep\n"
    << <<"a", "d", "d", " ", "R", "a", "d", "a", "r", " ", "|", " ", "S",
         "w", "e", "e", "p">>,
       <<"\t", "A", "d", "d", " ", " ", "R", "a", "d", "a", "r", " ", "|",
         "\t", "S", "w", "e", "e", "p", "\n">> >>,
    \* "disable Dark Mode" and "Disable  Dark   Mode "
    << <<"d", "i", "s", "a", "b", "l", "e", " ", "D", "a", "r", "k", " ",
         "M", "o", "d", "e">>,
       <<"D", "i", "s", "a", "b", "l", "e", " ", " ", "D", "a", "r", "k",
         " ", " ", " ", "M", "o", "d", "e", " ">> >>,
    \* "sync-email" and " Sync-Email"
    << <<"s", "y", "n", "c", "-", "e", "m", "a", "i", "l">>,
       <<" ", "S", "y", "n", "c", "-", "E", "m", "a", "i", "l">> >>,
    \* "nope" and " NOPE\t"
    << <<"n", "o", "p", "e">>,
       <<" ", "N", "O", "P", "E", "\t">> >>
  }

\* C32: two lines that differ only in the case of the first token, in
\* leading or trailing white space, or in the amount of white space
\* between tokens get the same result and the same store actions.
C32_CaseAndSpaceInsensitive ==
  lastOp = "processCommand"
    => \A pair \in SameCommand :
         line \in {pair[1], pair[2]}
           => \A k \in 1..2 :
                LET result == processCommand(pair[k], features, emailAddress, now)
                IN  /\ result.success = lastResult.success
                    /\ result.message = lastResult.message
                    /\ result.calls = calls

\* the add line typed with a capital, tabs and doubled spaces was given: it
\* succeeded and called addFeature with the name and the description
C32_Witness ==
  /\ lastOp = "processCommand"
  /\ \E pair \in SameCommand : line = pair[2] /\ VerbOf(line) = VerbAdd
  /\ PartsOf(line)[1] # VerbAdd
  /\ lastResult.success
  /\ Len(calls) = 1
  /\ calls[1].fn = "addFeature"
  /\ calls[1].a1 = <<"R", "a", "d", "a", "r">>

\* how many of the updaters applied so far came from the store action fn
Applied(fn) == Cardinality({i \in 1..flushed : updates[i].fn = fn})

\* C33: store actions called by different callers before React renders are
\* applied one at a time to the latest state and none is lost: the state is
\* what applying them one after the other, in the order they were called,
\* to the state at startup gives; every log holds one entry for each of
\* its add calls and every feature has been switched once for each of its
\* toggles.
C33_NoUpdateLost ==
  loaded
    => /\ Store = ApplyUpdates(InitialStore, SubSeq(updates, 1, flushed))
       /\ Len(gpsLogs) = Applied("addGPSLog")
       /\ Len(photoLogs) = Applied("addPhotoLog")
       /\ Len(commandLogs) = Applied("addCommandLog")
       /\ \A k \in 1..Len(DEFAULT_FEATURES) :
            features[k].enabled
              = (DEFAULT_FEATURES[k].enabled
                   <=> Cardinality({i \in 1..flushed :
                                      /\ updates[i].fn = "toggleFeature"
                                      /\ updates[i].a1 = DEFAULT_FEATURES[k].id}) % 2 = 0)

\* a dashboard switch, a GPS sample and a command were all called before
\* one render, which applied the three store actions and the log entry
C33_Witness ==
  /\ lastOp = "render"
  /\ budget = BatchEvents - 4
  /\ flushed = Len(updates)
  /\ Applied("addGPSLog") = 1
  /\ Applied("addCommandLog") = 1
  /\ Applied("toggleFeature") = 2
  /\ features[1].enabled = DEFAULT_FEATURES[1].enabled
  /\ Len(gpsLogs) = 1

\* C35: after clear-logs is run through runCommand the command log holds
\* exactly one entry, the success entry of that clear-logs; the earlier
\* entries are gone.
C35_ClearLogsLeavesItsEntry ==
  [][(RanCommand /\ VerbOf(line') = VerbClearLogs)
       => /\ Len(commandLogs') = 1
          /\ commandLogs'[1].command = line'
          /\ commandLogs'[1].type = SuccessType
          /\ commandLogs'[1].result = lastResult'.message
          /\ \A i \in 1..Len(commandLogs) : commandLogs'[1] # commandLogs[i]]_vars

\* clear-logs was run on a log of one earlier entry: the log holds the
\* entry of clear-logs and not the earlier one
C35_Witness ==
  /\ lastOp = "runCommand"
  /\ VerbOf(line) = VerbClearLogs
  /\ lastResult.success
  /\ Len(commandLogs) = 1
  /\ commandLogs[1].command = line
  /\ commandLogs[1] # PrevCommandLogs(1)[1]

----------------------------------------------------------------------------
(* Properties of the Settings title, of startup and of auto-tracking *)

C36_NothingBeforeLoad ==
  ~loaded
    => /\ pending = <<>>
       /\ issued = {}
       /\ lastOp = "mount"
       /\ budget = MaxEvents
       /\ Store = InitialStore
       /\ \E i \in 1..Len(StoredScenarios) : storage = StoredScenarios[i]

\* the load is still in flight after the clock has moved; the stored texts
\* of the session before are untouched
C36_Witness ==
  /\ ~loaded
  /\ now > SessionStart
  /\ storage = ValidStorage(1, 1, 1)
  /\ pending = <<>>

\* C37: the write-through that follows the load writes back, for every key
\* whose stored text was valid, the text that was stored, also when another
\* key is missing or corrupt.
C37_ValidKeysWrittenBack ==
  [][(~loaded /\ lastOp' = "load")
       => \A i \in 1..Len(pending') :
            LET k == pending'[i].key
            IN  (Truthy(storage[k]) /\ ~ParseThrows(storage[k]))
                  => pending'[i].text = storage[k]]_vars

\* C38: the startup load always finishes: once the six reads have settled,
\* loaded becomes true and the application renders, whether the reads
\* succeeded, returned nothing, returned corrupt text or rejected.
C38_LoadFinishes == <>loaded

\* the load finished on a corrupt features text: the application renders
\* the default features
C38_Witness ==
  /\ loaded
  /\ lastOp = "load"
  /\ storage["features"] = Garbage
  /\ features = DEFAULT_FEATURES

\* C39: auto-tracking keeps at most one sampling timer: while the screen is
\* mounted the tracking flag is true exactly when a timer is registered,
\* and that timer is the one trackingInterval holds; after tracking was
\* stopped or the screen unmounted no timer is registered.
C39_AtMostOneTimer ==
  /\ Cardinality(timers) <= 1
  /\ mounted => /\ tracking <=> timers # {}
                /\ tracking => timers = {trackingInterval}
  /\ ~mounted => timers = {}
  /\ lastOp \in {"stopTracking", "unmount"} => timers = {}

\* tracking was started, the timer took a sample, and the screen unmounted
\* while tracking: the timer is gone
C39_Witness ==
  /\ lastOp = "unmount"
  /\ ~mounted
  /\ tracking
  /\ trackingInterval # 0
  /\ timers = {}
  /\ Len(gpsLogs) >= 2

====
